---- MODULE Spec2Model ----
(***************************************************************************)
(* A model of the tugo transpiler's semantic pipeline: the symbol table    *)
(* and its collector (internal/symbol), the validation passes and the      *)
(* orchestration of TranspileFileWithName (transpiler), the lowering of    *)
(* try/catch and errable calls (codegen), and the control flow of the      *)
(* generated code.                                                         *)
(*                                                                         *)
(* Source ASTs are records of one shape, [k, n, x, y, z]: k is the node    *)
(* type of the parser, n its name, x/y/z its child lists.  Diagnostics are *)
(* records [key, a, b, c, n]: the i18n message key and its arguments.      *)
(***************************************************************************)
EXTENDS Integers, Sequences, FiniteSets, TLC

VARIABLES
    phase,      \* "new" before Collect/New, "ready" once a Transpiler exists
    project,    \* [id, files]: the program and its files (sequence of [name, ast])
    table,      \* symbol.Table: symbols, classes, interfaces
    tr,         \* the Transpiler object's fields
    out,        \* what the last TranspileFileWithName returned
    calls,      \* indexes of the files transpiled so far by this Transpiler
    exec        \* the last run of a generated function body

vars == <<phase, project, table, tr, out, calls, exec>>

----------------------------------------------------------------------------
(* Generic helpers *)

\* The translated functions that recurse, directly or through one another,
\* call each other by name: Call(fn, a) is the function named fn applied to
\* the arguments a (defined once all of them are).
RECURSIVE Call(_, _)

EmptyMap == [k \in {} |-> {}]

Put(m, k, v) == [j \in (DOMAIN m) \cup {k} |-> IF j = k THEN v ELSE m[j]]

Lookup(m, k, dflt) == IF k \in DOMAIN m THEN m[k] ELSE dflt

\* Op applied once its first argument has a value.
Step(Op(_, _), acc, x) == IF acc = acc THEN Op(acc, x) ELSE acc

FoldSeq(Op(_, _), acc, s) ==
    LET F[i \in 0..Len(s)] == IF i = 0 THEN acc ELSE Step(Op, F[i - 1], s[i])
    IN  F[Len(s)]

SeqToSet(s) == {s[i] : i \in 1..Len(s)}

AnySeq(P(_), s) == \E i \in 1..Len(s) : P(s[i])

Concat(ss) == FoldSeq(LAMBDA acc, s : acc \o s, <<>>, ss)

\* Last index i of s with P(s[i]), 0 when none.
LastIndex(P(_), s) ==
    LET hits == {i \in 1..Len(s) : P(s[i])}
    IN  IF hits = {} THEN 0 ELSE CHOOSE i \in hits : \A j \in hits : j <= i

FirstIndex(P(_), s) ==
    LET hits == {i \in 1..Len(s) : P(s[i])}
    IN  IF hits = {} THEN 0 ELSE CHOOSE i \in hits : \A j \in hits : i <= j

----------------------------------------------------------------------------
(* parser AST: expressions and statements *)

Node(k, n, x, y, z) == [k |-> k, n |-> n, x |-> x, y |-> y, z |-> z]

Ident(name)          == Node("Identifier", name, <<>>, <<>>, <<>>)
StringLit(v)         == Node("StringLiteral", v, <<>>, <<>>, <<>>)
ThisExpr             == Node("ThisExpr", "this", <<>>, <<>>, <<>>)
SelfExpr             == Node("SelfExpr", "self", <<>>, <<>>, <<>>)
CallExpr(fn, args)   == Node("CallExpr", "", <<fn>>, args, <<>>)
SelectorExpr(X, sel) == Node("SelectorExpr", sel, <<X>>, <<>>, <<>>)
StaticAccessExpr(left, member) == Node("StaticAccessExpr", member, <<left>>, <<>>, <<>>)
BinaryExpr(l, r)     == Node("BinaryExpr", "+", <<l, r>>, <<>>, <<>>)
UnaryExpr(o)         == Node("UnaryExpr", "!", <<o>>, <<>>, <<>>)
IndexExpr(X, i)      == Node("IndexExpr", "", <<X, i>>, <<>>, <<>>)
NewExpr(type, args)  == Node("NewExpr", type, <<>>, args, <<>>)
StructLiteral(type, vals) == Node("StructLiteral", type, <<>>, vals, <<>>)

ExpressionStmt(e)        == Node("ExpressionStmt", "", <<e>>, <<>>, <<>>)
ReturnStmt(values)       == Node("ReturnStmt", "", values, <<>>, <<>>)
AssignStmt(left, right)  == Node("AssignStmt", "=", left, right, <<>>)
ShortVarDecl(names, v)   == Node("ShortVarDecl", ":=", <<v>>, <<>>, names)
VarDecl(name, optValue)  == Node("VarDecl", name, optValue, <<>>, <<>>)
BlockStmt(stmts)         == Node("BlockStmt", "", <<>>, stmts, <<>>)
\* alt is <<>>, <<BlockStmt>> or <<IfStmt>> (else if)
IfStmt(cond, cons, alt)  == Node("IfStmt", "", <<cond>>, cons, alt)
\* optCond is <<>> or <<cond>>
ForStmt(optCond, body)   == Node("ForStmt", "", optCond, body, <<>>)
RangeStmt(X, body)       == Node("RangeStmt", "", <<X>>, body, <<>>)
CaseClause(exprs, body)  == Node("CaseClause", "", exprs, body, <<>>)
SwitchStmt(optTag, cases) == Node("SwitchStmt", "", optTag, <<>>, cases)
TryStmt(body, param, catchBody) == Node("TryStmt", param, <<>>, body, catchBody)
ThrowStmt(v)             == Node("ThrowStmt", "", <<v>>, <<>>, <<>>)
BreakStmt                == Node("BreakStmt", "", <<>>, <<>>, <<>>)
ContinueStmt             == Node("ContinueStmt", "", <<>>, <<>>, <<>>)

----------------------------------------------------------------------------
(* parser AST: declarations *)

Field(name, type, optDefault) == [Name |-> name, Type |-> type, DefaultValue |-> optDefault]

\* n fields of type "int" without defaults: only the count matters to the
\* conformance checks.
Fields(n) == [i \in 1..n |-> Field("", "int", <<>>)]

ClassMethod(name, vis, static, errable, params, results, body) ==
    [Name |-> name, Params |-> params, Results |-> results, Body |-> body,
     HasBody |-> TRUE, Visibility |-> vis, Static |-> static,
     Abstract |-> FALSE, Errable |-> errable]

AbstractMethod(name, params, results) ==
    [Name |-> name, Params |-> params, Results |-> results, Body |-> <<>>,
     HasBody |-> FALSE, Visibility |-> "public", Static |-> FALSE,
     Abstract |-> TRUE, Errable |-> FALSE]

\* FuncSignature of an interface, in the ClassMethod shape.
FuncSignature(name, params, results) == AbstractMethod(name, params, results)

ClassField(name, vis, static) == [Name |-> name, Visibility |-> vis, Static |-> static]

Decl(kind, name, public) ==
    [kind |-> kind, Name |-> name, Public |-> public, Abstract |-> FALSE,
     Static |-> FALSE, Extends |-> "", Implements |-> <<>>, Fields |-> <<>>,
     Methods |-> <<>>, AbstractMethods |-> <<>>, InitMethod |-> <<>>,
     Receiver |-> "", Params |-> <<>>, Results |-> <<>>, Body |-> <<>>,
     Errable |-> FALSE]

ClassDecl(name, public, methods) ==
    [Decl("class", name, public) EXCEPT !.Methods = methods]

StructDecl(name, public, methods) ==
    [Decl("struct", name, public) EXCEPT !.Methods = methods]

InterfaceDecl(name, public, sigs) ==
    [Decl("interface", name, public) EXCEPT !.Methods = sigs]

FuncDecl(name, public, errable, params, results, body) ==
    [Decl("func", name, public) EXCEPT !.Errable = errable, !.Params = params,
                                       !.Results = results, !.Body = body]

ImportSpec(typeName, alias, pkgName, isGo) ==
    [TypeName |-> typeName, Alias |-> alias, PkgName |-> pkgName,
     Path |-> pkgName \o "." \o typeName, IsGoImport |-> isGo]

File(pkg, imports, stmts) == [Package |-> pkg, Imports |-> imports, Statements |-> stmts]

----------------------------------------------------------------------------
(* internal/symbol: names *)

\* unicode.ToUpper / ToLower on a rune, for ASCII identifiers.
UpperOf == [a |-> "A", b |-> "B", c |-> "C", d |-> "D", e |-> "E", f |-> "F",
            g |-> "G", h |-> "H", i |-> "I", j |-> "J", k |-> "K", l |-> "L",
            m |-> "M", n |-> "N", o |-> "O", p |-> "P", q |-> "Q", r |-> "R",
            s |-> "S", t |-> "T", u |-> "U", v |-> "V", w |-> "W", x |-> "X",
            y |-> "Y", z |-> "Z"]

LowerOf == [A |-> "a", B |-> "b", C |-> "c", D |-> "d", E |-> "e", F |-> "f",
            G |-> "g", H |-> "h", I |-> "i", J |-> "j", K |-> "k", L |-> "l",
            M |-> "m", N |-> "n", O |-> "o", P |-> "p", Q |-> "q", R |-> "r",
            S |-> "s", T |-> "t", U |-> "u", V |-> "v", W |-> "w", X |-> "x",
            Y |-> "y", Z |-> "z"]

FirstOf(s) == SubSeq(s, 1, 1)
RestOf(s)  == SubSeq(s, 2, Len(s))

capitalize(s) ==
    IF s = "" THEN s
    ELSE IF FirstOf(s) \in DOMAIN UpperOf THEN UpperOf[FirstOf(s)] \o RestOf(s) ELSE s

uncapitalize(s) ==
    IF s = "" THEN s
    ELSE IF FirstOf(s) \in DOMAIN LowerOf THEN LowerOf[FirstOf(s)] \o RestOf(s) ELSE s

ToGoName(name, public) == IF public THEN capitalize(name) ELSE uncapitalize(name)

----------------------------------------------------------------------------
(* internal/symbol: Table *)

Symbol(name, goName, kind, public, pkg, receiver, hasDefault, errable, resultCount) ==
    [Name |-> name, GoName |-> goName, Kind |-> kind, Public |-> public,
     Package |-> pkg, Receiver |-> receiver, HasDefault |-> hasDefault,
     Errable |-> errable, ResultCount |-> resultCount]

\* The absence value of the lookups (a nil *Symbol, *ClassInfo, *InterfaceInfo).
Nil == [Name |-> "<nil>"]

\* Keys are pkg + "." + name and pkg + "." + receiver + "." + name.
key(pkg, name) == pkg \o "." \o name

methodKey(pkg, receiver, name) == pkg \o "." \o receiver \o "." \o name

\* order: the keys of symbols by first insertion, for the range loops over the map.
NewTable == [symbols |-> EmptyMap, classes |-> EmptyMap, interfaces |-> EmptyMap,
             order |-> <<>>]

AddKey(sym) ==
    IF sym.Kind = "Method" /\ sym.Receiver /= ""
    THEN methodKey(sym.Package, sym.Receiver, sym.Name)
    ELSE key(sym.Package, sym.Name)

Add(t, sym) ==
    [t EXCEPT !.symbols = Put(t.symbols, AddKey(sym), sym),
              !.order = IF AddKey(sym) \in DOMAIN t.symbols THEN @ ELSE Append(@, AddKey(sym))]

Get(t, pkg, name) == Lookup(t.symbols, key(pkg, name), Nil)

GetMethod(t, pkg, receiver, name) == Lookup(t.symbols, methodKey(pkg, receiver, name), Nil)

AddInterface(t, info) == [t EXCEPT !.interfaces = Put(t.interfaces, key(info.Package, info.Name), info)]

GetInterface(t, pkg, name) == Lookup(t.interfaces, key(pkg, name), Nil)

AddClass(t, info) == [t EXCEPT !.classes = Put(t.classes, key(info.Package, info.Name), info)]

GetClass(t, pkg, name) == Lookup(t.classes, key(pkg, name), Nil)

\* GetAll returns the symbols in map-iteration order; its callers here only
\* test whether some symbol matches, so the set of symbols is what matters.
GetAll(t) == {t.symbols[k] : k \in DOMAIN t.symbols}

IsMethodKind(sym) == sym.Kind = "ClassMethod" \/ sym.Kind = "Method"

----------------------------------------------------------------------------
(* internal/symbol: Collector *)

HasDefaultParam(params) == AnySeq(LAMBDA p : p.DefaultValue /= <<>>, params)

IsPublicVis(vis) == vis = "public" \/ vis = "protected"

collectFunc(t, pkg, decl) ==
    Add(t, Symbol(decl.Name, ToGoName(decl.Name, decl.Public),
                  IF decl.Receiver /= "" THEN "Method" ELSE "Func",
                  decl.Public, pkg, decl.Receiver, HasDefaultParam(decl.Params),
                  decl.Errable, Len(decl.Results)))

collectStruct(t, pkg, decl) ==
    Add(t, Symbol(decl.Name, ToGoName(decl.Name, decl.Public), "Struct",
                  decl.Public, pkg, "", FALSE, FALSE, 0))

ClassMethodSymbol(pkg, decl, method) ==
    Symbol(method.Name, ToGoName(method.Name, IsPublicVis(method.Visibility)),
           "ClassMethod", IsPublicVis(method.Visibility), pkg, decl.Name,
           (~method.Abstract) /\ HasDefaultParam(method.Params),
           method.Errable, Len(method.Results))

InitSymbol(pkg, decl, init) ==
    Symbol("init", "New" \o ToGoName(decl.Name, decl.Public), "ClassMethod",
           TRUE, pkg, decl.Name, HasDefaultParam(init.Params), init.Errable, 0)

ClassInfoOf(pkg, decl) ==
    [Name |-> decl.Name, GoName |-> ToGoName(decl.Name, decl.Public),
     Public |-> decl.Public, Abstract |-> decl.Abstract, Package |-> pkg,
     Extends |-> decl.Extends, Implements |-> decl.Implements,
     Methods |-> decl.Methods, AbstractMethods |-> decl.AbstractMethods,
     InitMethod |-> decl.InitMethod]

collectClass(t, pkg, decl) ==
    LET t1 == Add(t, Symbol(decl.Name, ToGoName(decl.Name, decl.Public), "Class",
                            decl.Public, pkg, "", FALSE, FALSE, 0))
        t2 == AddClass(t1, ClassInfoOf(pkg, decl))
        t3 == FoldSeq(LAMBDA acc, m : Add(acc, ClassMethodSymbol(pkg, decl, m)),
                      t2, decl.Methods)
        t4 == FoldSeq(LAMBDA acc, m : Add(acc, ClassMethodSymbol(pkg, decl, m)),
                      t3, decl.AbstractMethods)
    IN  FoldSeq(LAMBDA acc, m : Add(acc, InitSymbol(pkg, decl, m)), t4, decl.InitMethod)

collectInterface(t, pkg, decl) ==
    AddInterface(Add(t, Symbol(decl.Name, ToGoName(decl.Name, decl.Public), "Interface",
                               decl.Public, pkg, "", FALSE, FALSE, 0)),
                 [Name |-> decl.Name, GoName |-> ToGoName(decl.Name, decl.Public),
                  Public |-> decl.Public, Package |-> pkg, Methods |-> decl.Methods])

collectStatement(t, pkg, decl) ==
    CASE decl.kind = "func"      -> collectFunc(t, pkg, decl)
      [] decl.kind = "struct"    -> collectStruct(t, pkg, decl)
      [] decl.kind = "class"     -> collectClass(t, pkg, decl)
      [] decl.kind = "interface" -> collectInterface(t, pkg, decl)
      [] OTHER -> Add(t, Symbol(decl.Name, decl.Name,
                                CASE decl.kind = "var" -> "Var"
                                  [] decl.kind = "const" -> "Const"
                                  [] OTHER -> "Type",
                                FALSE, pkg, "", FALSE, FALSE, 0))

CollectFile(t, file) ==
    FoldSeq(LAMBDA acc, d : collectStatement(acc, file.Package, d), t, file.Statements)

\* Collect that has collected the first file only when it returns.
CollectFirstOnly(files) ==
    FoldSeq(LAMBDA acc, f : CollectFile(acc, f.ast), NewTable, SubSeq(files, 1, 1))

\* files: a sequence of [name, ast]
Collect(files) == FoldSeq(LAMBDA acc, f : CollectFile(acc, f.ast), NewTable, files)

----------------------------------------------------------------------------
(* transpiler: diagnostics *)

\* i18n.T(key, args...): the message key with its string and integer arguments.
Diag(dkey, a, b, c, n, m) == [key |-> dkey, a |-> a, b |-> b, c |-> c, n |-> n, m |-> m]

IsNil(v) == v.Name = "<nil>"

\* A Go map range over keys inserted in the order of ks (first insertion of
\* each key): the runtime starts at a random offset, modelled as a rotation.
Dedup(ks) ==
    FoldSeq(LAMBDA acc, k : IF k \in SeqToSet(acc) THEN acc ELSE Append(acc, k), <<>>, ks)

Rotate(ks, r) ==
    IF Len(ks) = 0 THEN ks
    ELSE LET sh == r % Len(ks) IN SubSeq(ks, sh + 1, Len(ks)) \o SubSeq(ks, 1, sh)

MapRange(ks, ord) == Rotate(Dedup(ks), ord)

\* m := make(map[string]*ClassMethod); for _, x := range methods { m[x.Name] = x }
\* m[name] is the last method declared with that name.
MethodsByName(methods, name) == LastIndex(LAMBDA x : x.Name = name, methods)

----------------------------------------------------------------------------
(* transpiler: interface conformance *)

validateMethodSignature(className, ifaceName, method, sig) ==
    IF Len(method.Params) /= Len(sig.Params)
    THEN <<Diag("ErrParamCountMismatch", className, method.Name, ifaceName,
                Len(method.Params), Len(sig.Params))>>
    ELSE IF Len(method.Results) /= Len(sig.Results)
    THEN <<Diag("ErrReturnCountMismatch", className, method.Name, ifaceName,
                Len(method.Results), Len(sig.Results))>>
    ELSE <<>>

validateImplementsOne(errs, t, pkg, classDecl, ifaceName) ==
    LET ifaceInfo == GetInterface(t, pkg, ifaceName)
    IN  IF IsNil(ifaceInfo)
        THEN Append(errs, Diag("ErrInterfaceNotFound", classDecl.Name, ifaceName, "", 0, 0))
        ELSE FoldSeq(LAMBDA acc, ifaceMethod :
                        LET i == MethodsByName(classDecl.Methods, ifaceMethod.Name)
                        IN  IF i = 0
                            THEN Append(acc, Diag("ErrMissingMethod", classDecl.Name,
                                                  ifaceName, ifaceMethod.Name, 0, 0))
                            ELSE acc \o validateMethodSignature(classDecl.Name, ifaceName,
                                                                classDecl.Methods[i], ifaceMethod),
                     errs, ifaceInfo.Methods)

validateImplements(errs, t, pkg, classDecl) ==
    FoldSeq(LAMBDA acc, ifaceName : validateImplementsOne(acc, t, pkg, classDecl, ifaceName),
            errs, classDecl.Implements)

validateStructMethodSignature(structName, ifaceName, method, sig) ==
    IF Len(method.Params) /= Len(sig.Params)
    THEN <<Diag("ErrStructParamMismatch", structName, method.Name, ifaceName,
                Len(method.Params), Len(sig.Params))>>
    ELSE IF Len(method.Results) /= Len(sig.Results)
    THEN <<Diag("ErrStructReturnMismatch", structName, method.Name, ifaceName,
                Len(method.Results), Len(sig.Results))>>
    ELSE <<>>

validateStructImplementsOne(errs, t, pkg, structDecl, ifaceName) ==
    LET ifaceInfo == GetInterface(t, pkg, ifaceName)
    IN  IF IsNil(ifaceInfo)
        THEN Append(errs, Diag("ErrStructInterfaceNotFound", structDecl.Name, ifaceName, "", 0, 0))
        ELSE FoldSeq(LAMBDA acc, ifaceMethod :
                        LET i == MethodsByName(structDecl.Methods, ifaceMethod.Name)
                        IN  IF i = 0
                            THEN Append(acc, Diag("ErrStructMissingMethod", structDecl.Name,
                                                  ifaceName, ifaceMethod.Name, 0, 0))
                            ELSE acc \o validateStructMethodSignature(structDecl.Name, ifaceName,
                                                                      structDecl.Methods[i], ifaceMethod),
                     errs, ifaceInfo.Methods)

validateStructImplements(errs, t, pkg, structDecl) ==
    FoldSeq(LAMBDA acc, ifaceName : validateStructImplementsOne(acc, t, pkg, structDecl, ifaceName),
            errs, structDecl.Implements)

----------------------------------------------------------------------------
(* transpiler: extends / abstract completeness *)

isImportedType(typeName, file) ==
    AnySeq(LAMBDA spec : (~spec.IsGoImport)
                         /\ (spec.TypeName = typeName
                             \/ (spec.Alias /= "" /\ spec.Alias = typeName)),
           file.Imports)

validateAbstractMethodSignature(className, parentName, method, abstractMethod) ==
    IF Len(method.Params) /= Len(abstractMethod.Params)
    THEN <<Diag("ErrAbstractParamMismatch", className, method.Name, parentName,
                Len(method.Params), Len(abstractMethod.Params))>>
    ELSE IF Len(method.Results) /= Len(abstractMethod.Results)
    THEN <<Diag("ErrAbstractReturnMismatch", className, method.Name, parentName,
                Len(method.Results), Len(abstractMethod.Results))>>
    ELSE <<>>

\* The variant of validateExtends that refuses a parent that is not abstract.
validateExtendsStrict(errs, t, pkg, classDecl, file) ==
    LET parentInfo == GetClass(t, pkg, classDecl.Extends)
    IN  IF IsNil(parentInfo)
        THEN IF isImportedType(classDecl.Extends, file)
             THEN errs
             ELSE Append(errs, Diag("ErrParentClassNotFound", classDecl.Name,
                                    classDecl.Extends, "", 0, 0))
        ELSE IF ~parentInfo.Abstract
        THEN Append(errs, Diag("ErrExtendNonAbstract", classDecl.Name,
                               classDecl.Extends, "", 0, 0))
        ELSE IF classDecl.Abstract THEN errs
        ELSE FoldSeq(LAMBDA acc, abstractMethod :
                        LET i == MethodsByName(classDecl.Methods, abstractMethod.Name)
                        IN  IF i = 0
                            THEN Append(acc, Diag("ErrAbstractMethodMissing", classDecl.Name,
                                                  abstractMethod.Name, classDecl.Extends, 0, 0))
                            ELSE acc \o validateAbstractMethodSignature(
                                            classDecl.Name, classDecl.Extends,
                                            classDecl.Methods[i], abstractMethod),
                     errs, parentInfo.AbstractMethods)

validateExtends(errs, t, pkg, classDecl, file) ==
    LET parentInfo == GetClass(t, pkg, classDecl.Extends)
    IN  IF IsNil(parentInfo)
        THEN IF isImportedType(classDecl.Extends, file)
             THEN errs
             ELSE Append(errs, Diag("ErrParentClassNotFound", classDecl.Name,
                                    classDecl.Extends, "", 0, 0))
        ELSE IF ~parentInfo.Abstract THEN errs
        ELSE IF classDecl.Abstract THEN errs
        ELSE FoldSeq(LAMBDA acc, abstractMethod :
                        LET i == MethodsByName(classDecl.Methods, abstractMethod.Name)
                        IN  IF i = 0
                            THEN Append(acc, Diag("ErrAbstractMethodMissing", classDecl.Name,
                                                  abstractMethod.Name, classDecl.Extends, 0, 0))
                            ELSE acc \o validateAbstractMethodSignature(
                                            classDecl.Name, classDecl.Extends,
                                            classDecl.Methods[i], abstractMethod),
                     errs, parentInfo.AbstractMethods)

----------------------------------------------------------------------------
(* transpiler: static classes *)

exprContainsThis(e) ==
    CASE e.k = "ThisExpr"     -> TRUE
      [] e.k = "BinaryExpr"   -> Call("exprContainsThis", <<e.x[1]>>) \/ Call("exprContainsThis", <<e.x[2]>>)
      [] e.k = "UnaryExpr"    -> Call("exprContainsThis", <<e.x[1]>>)
      [] e.k = "CallExpr"     -> Call("exprContainsThis", <<e.x[1]>>)
                                 \/ \E i \in 1..Len(e.y) : Call("exprContainsThis", <<e.y[i]>>)
      [] e.k = "SelectorExpr" -> Call("exprContainsThis", <<e.x[1]>>)
      [] e.k = "IndexExpr"    -> Call("exprContainsThis", <<e.x[1]>>) \/ Call("exprContainsThis", <<e.x[2]>>)
      [] OTHER -> FALSE

containsThis(stmts) == \E i \in 1..Len(stmts) : Call("stmtContainsThis", <<stmts[i]>>)

stmtContainsThis(s) ==
    CASE s.k = "ExpressionStmt" -> Call("exprContainsThis", <<s.x[1]>>)
      [] s.k = "ReturnStmt" -> \E i \in 1..Len(s.x) : Call("exprContainsThis", <<s.x[i]>>)
      [] s.k = "AssignStmt" -> (\E i \in 1..Len(s.x) : Call("exprContainsThis", <<s.x[i]>>))
                               \/ (\E i \in 1..Len(s.y) : Call("exprContainsThis", <<s.y[i]>>))
      [] s.k = "IfStmt" -> Call("exprContainsThis", <<s.x[1]>>)
                           \/ Call("containsThis", <<s.y>>)
                           \/ (s.z /= <<>> /\ s.z[1].k = "BlockStmt" /\ Call("containsThis", <<s.z[1].y>>))
      [] s.k = "ForStmt" -> Call("containsThis", <<s.y>>)
      [] s.k = "BlockStmt" -> Call("containsThis", <<s.y>>)
      [] OTHER -> FALSE

validateStaticClass(errs, classDecl) ==
    LET errs1 == IF classDecl.InitMethod /= <<>>
                 THEN Append(errs, Diag("ErrStaticClassInit", classDecl.Name, "", "", 0, 0))
                 ELSE errs
    IN  FoldSeq(LAMBDA acc, method :
                    IF method.HasBody /\ Call("containsThis", <<method.Body>>)
                    THEN Append(acc, Diag("ErrStaticClassThis", classDecl.Name, method.Name, "", 0, 0))
                    ELSE acc,
                errs1, classDecl.Methods)

----------------------------------------------------------------------------
(* transpiler: top-level shape, file naming, entry point *)

validateTopLevelStatements(errs, file) ==
    FoldSeq(LAMBDA acc, d :
                CASE d.kind = "func"  -> Append(acc, Diag("ErrTopLevelFunction", d.Name, "", "", 0, 0))
                  [] d.kind = "var"   -> Append(acc, Diag("ErrTopLevelVariable", d.Name, "", "", 0, 0))
                  [] d.kind = "const" -> Append(acc, Diag("ErrTopLevelConstant", d.Name, "", "", 0, 0))
                  [] OTHER -> acc,
            errs, file.Statements)

\* The variant of validateFileNaming that goes on to compare the names after
\* it has reported too many public types.
validateFileNamingAll(errs, file, fileName) ==
    LET publicClasses == SelectSeq(file.Statements, LAMBDA d : d.kind = "class" /\ d.Public)
        publicInterfaces == SelectSeq(file.Statements, LAMBDA d : d.kind = "interface" /\ d.Public)
        totalPublic == Len(publicClasses) + Len(publicInterfaces)
        errs0 == IF totalPublic > 1
                 THEN Append(errs, Diag("ErrTooManyPublicTypes", fileName, "", "", totalPublic, 0))
                 ELSE errs
        errs1 == IF Len(publicClasses) = 1 /\ publicClasses[1].Name /= fileName
                 THEN Append(errs0, Diag("ErrPublicClassFileName", publicClasses[1].Name,
                                         publicClasses[1].Name, fileName, 0, 0))
                 ELSE errs0
    IN  IF Len(publicInterfaces) = 1 /\ publicInterfaces[1].Name /= fileName
        THEN Append(errs1, Diag("ErrPublicIfaceFileName", publicInterfaces[1].Name,
                                publicInterfaces[1].Name, fileName, 0, 0))
        ELSE errs1

validateFileNaming(errs, file, fileName) ==
    LET publicClasses == SelectSeq(file.Statements, LAMBDA d : d.kind = "class" /\ d.Public)
        publicInterfaces == SelectSeq(file.Statements, LAMBDA d : d.kind = "interface" /\ d.Public)
        totalPublic == Len(publicClasses) + Len(publicInterfaces)
        errs1 == IF Len(publicClasses) = 1 /\ publicClasses[1].Name /= fileName
                 THEN Append(errs, Diag("ErrPublicClassFileName", publicClasses[1].Name,
                                        publicClasses[1].Name, fileName, 0, 0))
                 ELSE errs
    IN  IF totalPublic > 1
        THEN Append(errs, Diag("ErrTooManyPublicTypes", fileName, "", "", totalPublic, 0))
        ELSE IF Len(publicInterfaces) = 1 /\ publicInterfaces[1].Name /= fileName
        THEN Append(errs1, Diag("ErrPublicIfaceFileName", publicInterfaces[1].Name,
                                publicInterfaces[1].Name, fileName, 0, 0))
        ELSE errs1

IsEntryClass(pkg, currentFile, classDecl) ==
    pkg = "main" /\ currentFile /= "" /\ classDecl.Name = currentFile

validateMainMethod(errs, classDecl) ==
    LET i == FirstIndex(LAMBDA m : m.Name = "main", classDecl.Methods)
        method == classDecl.Methods[i]
        e1 == IF ~method.Static
              THEN Append(errs, Diag("ErrMainNotStatic", classDecl.Name, "", "", 0, 0)) ELSE errs
        e2 == IF method.Visibility /= "public"
              THEN Append(e1, Diag("ErrMainNotPublic", classDecl.Name, "", "", 0, 0)) ELSE e1
        e3 == IF Len(method.Params) > 0
              THEN Append(e2, Diag("ErrMainHasParams", classDecl.Name, "", "", 0, 0)) ELSE e2
    IN  IF i = 0 THEN errs
        ELSE IF Len(method.Results) > 0
        THEN Append(e3, Diag("ErrMainHasReturns", classDecl.Name, "", "", 0, 0)) ELSE e3

----------------------------------------------------------------------------
(* transpiler: errable-call handling *)

\* c: [table, pkg, funcName, funcIsErrable]
validateErrableCallsInExprs(errs, c, inTryBlock, exprs) ==
    FoldSeq(LAMBDA acc, e : Call("validateErrableCallsInExpr", <<acc, c, inTryBlock, e>>), errs, exprs)

validateErrableCallsInExpr(errs, c, inTryBlock, e) ==
    CASE e.k = "CallExpr" ->
            LET fn == e.x[1]
                sym == Get(c.table, c.pkg, fn.n)
                errs1 ==
                    IF fn.k = "Identifier"
                    THEN IF (~IsNil(sym)) /\ sym.Errable /\ ~inTryBlock /\ ~c.funcIsErrable
                         THEN Append(errs, Diag("ErrErrableNotHandled", c.funcName, fn.n, "", 0, 0))
                         ELSE errs
                    ELSE IF fn.k = "SelectorExpr"
                    THEN IF (\E s \in GetAll(c.table) :
                                IsMethodKind(s) /\ s.Name = fn.n /\ s.Errable)
                            /\ ~inTryBlock /\ ~c.funcIsErrable
                         THEN Append(errs, Diag("ErrErrableMethodNotHandled", c.funcName, fn.n, "", 0, 0))
                         ELSE errs
                    ELSE errs
            IN  Call("validateErrableCallsInExprs", <<errs1, c, inTryBlock, e.y>>)
      [] e.k = "BinaryExpr"   -> Call("validateErrableCallsInExprs", <<errs, c, inTryBlock, e.x>>)
      [] e.k = "UnaryExpr"    -> Call("validateErrableCallsInExprs", <<errs, c, inTryBlock, e.x>>)
      [] e.k = "IndexExpr"    -> Call("validateErrableCallsInExprs", <<errs, c, inTryBlock, e.x>>)
      [] e.k = "SelectorExpr" -> Call("validateErrableCallsInExprs", <<errs, c, inTryBlock, e.x>>)
      [] OTHER -> errs

validateErrableCallsInBlock(errs, c, inTryBlock, stmts) ==
    FoldSeq(LAMBDA acc, s : Call("validateErrableCallsInStmt", <<acc, c, inTryBlock, s>>), errs, stmts)

\* validateErrableCallsInStmt with the catch body checked as a part of the
\* try-protected region.
validateErrableCallsInStmtCatchProtected(errs, c, inTryBlock, s) ==
    CASE s.k = "ExpressionStmt" -> Call("validateErrableCallsInExprs", <<errs, c, inTryBlock, s.x>>)
      [] s.k = "TryStmt" ->
            Call("validateErrableCallsInBlock", <<Call("validateErrableCallsInBlock",
                                                       <<errs, c, TRUE, s.y>>),
                                        c, TRUE, s.z>>)
      [] s.k = "ReturnStmt"   -> Call("validateErrableCallsInExprs", <<errs, c, inTryBlock, s.x>>)
      [] s.k = "AssignStmt"   -> Call("validateErrableCallsInExprs", <<errs, c, inTryBlock, s.y>>)
      [] s.k = "ShortVarDecl" -> Call("validateErrableCallsInExprs", <<errs, c, inTryBlock, s.x>>)
      [] s.k = "VarDecl"      -> Call("validateErrableCallsInExprs", <<errs, c, inTryBlock, s.x>>)
      [] s.k = "IfStmt" ->
            LET e1 == Call("validateErrableCallsInExprs", <<errs, c, inTryBlock, s.x>>)
                e2 == Call("validateErrableCallsInBlock", <<e1, c, inTryBlock, s.y>>)
            IN  IF s.z = <<>> THEN e2
                ELSE IF s.z[1].k = "BlockStmt"
                THEN Call("validateErrableCallsInBlock", <<e2, c, inTryBlock, s.z[1].y>>)
                ELSE IF s.z[1].k = "IfStmt"
                THEN Call("validateErrableCallsInStmt", <<e2, c, inTryBlock, s.z[1]>>)
                ELSE e2
      [] s.k = "ForStmt"    -> Call("validateErrableCallsInBlock", <<errs, c, inTryBlock, s.y>>)
      [] s.k = "RangeStmt"  -> Call("validateErrableCallsInBlock", <<errs, c, inTryBlock, s.y>>)
      [] s.k = "SwitchStmt" ->
            FoldSeq(LAMBDA acc, cl : Call("validateErrableCallsInBlock", <<acc, c, inTryBlock, cl.y>>),
                    errs, s.z)
      [] s.k = "BlockStmt"  -> Call("validateErrableCallsInBlock", <<errs, c, inTryBlock, s.y>>)
      [] OTHER -> errs

validateErrableCallsInStmt(errs, c, inTryBlock, s) ==
    CASE s.k = "ExpressionStmt" -> Call("validateErrableCallsInExprs", <<errs, c, inTryBlock, s.x>>)
      [] s.k = "TryStmt" ->
            Call("validateErrableCallsInBlock", <<validateErrableCallsInBlock(errs, c, TRUE, s.y),
                                        c, inTryBlock, s.z>>)
      [] s.k = "ReturnStmt"   -> Call("validateErrableCallsInExprs", <<errs, c, inTryBlock, s.x>>)
      [] s.k = "AssignStmt"   -> Call("validateErrableCallsInExprs", <<errs, c, inTryBlock, s.y>>)
      [] s.k = "ShortVarDecl" -> Call("validateErrableCallsInExprs", <<errs, c, inTryBlock, s.x>>)
      [] s.k = "VarDecl"      -> Call("validateErrableCallsInExprs", <<errs, c, inTryBlock, s.x>>)
      [] s.k = "IfStmt" ->
            LET e1 == Call("validateErrableCallsInExprs", <<errs, c, inTryBlock, s.x>>)
                e2 == Call("validateErrableCallsInBlock", <<e1, c, inTryBlock, s.y>>)
            IN  IF s.z = <<>> THEN e2
                ELSE IF s.z[1].k = "BlockStmt"
                THEN Call("validateErrableCallsInBlock", <<e2, c, inTryBlock, s.z[1].y>>)
                ELSE IF s.z[1].k = "IfStmt"
                THEN Call("validateErrableCallsInStmt", <<e2, c, inTryBlock, s.z[1]>>)
                ELSE e2
      [] s.k = "ForStmt"    -> Call("validateErrableCallsInBlock", <<errs, c, inTryBlock, s.y>>)
      [] s.k = "RangeStmt"  -> Call("validateErrableCallsInBlock", <<errs, c, inTryBlock, s.y>>)
      [] s.k = "SwitchStmt" ->
            FoldSeq(LAMBDA acc, cl : Call("validateErrableCallsInBlock", <<acc, c, inTryBlock, cl.y>>),
                    errs, s.z)
      [] s.k = "BlockStmt"  -> Call("validateErrableCallsInBlock", <<errs, c, inTryBlock, s.y>>)
      [] OTHER -> errs

validateErrableCallsInFunc(errs, t, pkg, funcName, funcIsErrable, body) ==
    Call("validateErrableCallsInBlock", <<errs, [table |-> t, pkg |-> pkg, funcName |-> funcName,
                                       funcIsErrable |-> funcIsErrable], FALSE, body>>)

validateErrableCallsInType(errs, t, pkg, d) ==
    LET e1 == FoldSeq(LAMBDA acc, method :
                        IF method.HasBody
                        THEN Call("validateErrableCallsInFunc", <<acc, t, pkg, d.Name \o "." \o method.Name,
                                                        method.Errable, method.Body>>)
                        ELSE acc,
                      errs, d.Methods)
    IN  FoldSeq(LAMBDA acc, init :
                    IF init.HasBody
                    THEN Call("validateErrableCallsInFunc", <<acc, t, pkg, d.Name \o ".init",
                                                    init.Errable, init.Body>>)
                    ELSE acc,
                e1, d.InitMethod)

validateErrableCalls(errs, t, pkg, file) ==
    FoldSeq(LAMBDA acc, d :
                CASE d.kind = "func" ->
                        Call("validateErrableCallsInFunc", <<acc, t, pkg, d.Name, d.Errable, d.Body>>)
                  [] d.kind \in {"class", "struct"} -> validateErrableCallsInType(acc, t, pkg, d)
                  [] OTHER -> acc,
            errs, file.Statements)

----------------------------------------------------------------------------
(* transpiler: method-call visibility *)

HasNewPrefix(funcName) == Len(funcName) > 3 /\ SubSeq(funcName, 1, 3) = "New"

inferExprType(e) ==
    CASE e.k = "NewExpr" -> e.n
      [] e.k = "CallExpr" ->
            IF e.x[1].k = "Identifier" /\ HasNewPrefix(e.x[1].n)
            THEN SubSeq(e.x[1].n, 4, Len(e.x[1].n)) ELSE ""
      [] e.k = "StructLiteral" -> e.n
      [] OTHER -> ""

\* c: [table, pkg, callerClass, typeToPackage]
inferReceiverTypeWithVars(c, varTypes, e) ==
    CASE e.k = "Identifier" ->
            IF e.n \in DOMAIN varTypes THEN varTypes[e.n]
            ELSE IF ~IsNil(GetClass(c.table, c.pkg, e.n)) THEN e.n ELSE ""
      [] e.k = "NewExpr" -> e.n
      [] e.k = "CallExpr" ->
            IF e.x[1].k = "Identifier" /\ HasNewPrefix(e.x[1].n)
            THEN LET typeName == SubSeq(e.x[1].n, 4, Len(e.x[1].n))
                 IN  IF ~IsNil(GetClass(c.table, c.pkg, typeName)) THEN typeName
                     ELSE IF \E pkgName \in DOMAIN c.typeToPackage :
                                ~IsNil(GetClass(c.table, pkgName, typeName))
                     THEN typeName ELSE ""
            ELSE ""
      [] OTHER -> ""

checkMethodCallVisibility(errs, c, varTypes, sel) ==
    LET methodName == sel.n
        receiverType == inferReceiverTypeWithVars(c, varTypes, sel.x[1])
        local == GetClass(c.table, c.pkg, receiverType)
        classInfo == IF IsNil(local) /\ receiverType \in DOMAIN c.typeToPackage
                     THEN GetClass(c.table, c.typeToPackage[receiverType], receiverType)
                     ELSE local
        i == FirstIndex(LAMBDA m : m.Name = methodName, classInfo.Methods)
    IN  IF receiverType = "" \/ receiverType = c.callerClass \/ IsNil(classInfo) THEN errs
        ELSE IF i /= 0 /\ ~IsPublicVis(classInfo.Methods[i].Visibility)
        THEN Append(errs, Diag("ErrPrivateMethodAccess",
                               IF c.callerClass = "" THEN "main" ELSE c.callerClass,
                               receiverType, methodName, 0, 0))
        ELSE errs

validateVisibilityInExprs(errs, c, varTypes, exprs) ==
    FoldSeq(LAMBDA acc, e : Call("validateVisibilityInExpr", <<acc, c, varTypes, e>>), errs, exprs)

validateVisibilityInExpr(errs, c, varTypes, e) ==
    CASE e.k = "CallExpr" ->
            Call("validateVisibilityInExprs", <<
                IF e.x[1].k = "SelectorExpr"
                THEN checkMethodCallVisibility(errs, c, varTypes, e.x[1]) ELSE errs,
                c, varTypes, e.y>>)
      [] e.k \in {"SelectorExpr", "BinaryExpr", "UnaryExpr", "IndexExpr"} ->
            Call("validateVisibilityInExprs", <<errs, c, varTypes, e.x>>)
      [] e.k = "NewExpr" -> Call("validateVisibilityInExprs", <<errs, c, varTypes, e.y>>)
      [] OTHER -> errs

\* st: [errs, varTypes]; the varTypes map is shared by all blocks of one body.
validateVisibilityInBlock(st, c, stmts) ==
    FoldSeq(LAMBDA acc, s : Call("validateVisibilityInStmt", <<acc, c, s>>), st, stmts)

TrackVar(st, name, value) ==
    IF inferExprType(value) /= ""
    THEN [st EXCEPT !.varTypes = Put(st.varTypes, name, inferExprType(value))]
    ELSE st

VisExprs(st, c, exprs) ==
    [st EXCEPT !.errs = Call("validateVisibilityInExprs", <<st.errs, c, st.varTypes, exprs>>)]

validateVisibilityInStmt(st, c, s) ==
    CASE s.k = "ExpressionStmt" -> Call("VisExprs", <<st, c, s.x>>)
      [] s.k = "ReturnStmt"     -> Call("VisExprs", <<st, c, s.x>>)
      [] s.k = "AssignStmt"     -> Call("VisExprs", <<st, c, s.y>>)
      [] s.k = "ShortVarDecl" ->
            Call("VisExprs", <<IF Len(s.z) = 1 THEN TrackVar(st, s.z[1].n, s.x[1]) ELSE st, c, s.x>>)
      [] s.k = "VarDecl" ->
            IF s.x = <<>> THEN st ELSE Call("VisExprs", <<TrackVar(st, s.n, s.x[1]), c, s.x>>)
      [] s.k = "IfStmt" ->
            LET s1 == Call("validateVisibilityInBlock", <<VisExprs(st, c, s.x), c, s.y>>)
            IN  IF s.z = <<>> THEN s1
                ELSE IF s.z[1].k = "BlockStmt" THEN Call("validateVisibilityInBlock", <<s1, c, s.z[1].y>>)
                ELSE IF s.z[1].k = "IfStmt" THEN Call("validateVisibilityInStmt", <<s1, c, s.z[1]>>)
                ELSE s1
      [] s.k \in {"ForStmt", "RangeStmt", "BlockStmt"} -> Call("validateVisibilityInBlock", <<st, c, s.y>>)
      [] s.k = "TryStmt" ->
            Call("validateVisibilityInBlock", <<validateVisibilityInBlock(st, c, s.y), c, s.z>>)
      [] OTHER -> st

validateVisibilityInBody(errs, c, body) ==
    Call("validateVisibilityInBlock", <<[errs |-> errs, varTypes |-> EmptyMap], c, body>>).errs

TypeToPackage(file) ==
    FoldSeq(LAMBDA acc, spec :
                IF spec.IsGoImport THEN acc
                ELSE Put(acc, IF spec.Alias /= "" THEN spec.Alias ELSE spec.TypeName, spec.PkgName),
            EmptyMap, file.Imports)

validateVisibility(errs, t, pkg, file) ==
    FoldSeq(LAMBDA acc, d :
                LET c == [table |-> t, pkg |-> pkg,
                          callerClass |-> IF d.kind = "func" THEN "" ELSE d.Name,
                          typeToPackage |-> TypeToPackage(file)]
                IN  CASE d.kind \in {"class", "struct"} ->
                            FoldSeq(LAMBDA a2, m :
                                        IF m.HasBody THEN Call("validateVisibilityInBody", <<a2, c, m.Body>>)
                                        ELSE a2,
                                    acc, d.Methods \o d.InitMethod)
                      [] d.kind = "func" -> Call("validateVisibilityInBody", <<acc, c, d.Body>>)
                      [] OTHER -> acc,
            errs, file.Statements)

----------------------------------------------------------------------------
(* transpiler: undefined symbols *)

isBuiltinType(typeName) ==
    typeName \in {"int", "int8", "int16", "int32", "int64", "uint", "uint8", "uint16",
                  "uint32", "uint64", "float32", "float64", "bool", "string", "byte",
                  "rune", "error"}

\* known: importedTypes \cup definedTypes
UndefinedType(errs, known, typeName) ==
    IF typeName \notin known /\ ~isBuiltinType(typeName)
    THEN Append(errs, Diag("ErrUndefinedType", typeName, "", "", 0, 0))
    ELSE errs

validateSymbolsInExprs(errs, known, exprs) ==
    FoldSeq(LAMBDA acc, e : Call("validateSymbolsInExpr", <<acc, known, e>>), errs, exprs)

validateSymbolsInExpr(errs, known, e) ==
    CASE e.k = "CallExpr" ->
            Call("validateSymbolsInExprs", <<
                IF e.x[1].k = "NewExpr" THEN UndefinedType(errs, known, e.x[1].n)
                ELSE Call("validateSymbolsInExpr", <<errs, known, e.x[1]>>),
                known, e.y>>)
      [] e.k = "NewExpr" -> UndefinedType(errs, known, e.n)
      [] e.k \in {"BinaryExpr", "UnaryExpr", "IndexExpr", "SelectorExpr"} ->
            Call("validateSymbolsInExprs", <<errs, known, e.x>>)
      [] e.k = "StaticAccessExpr" ->
            IF e.x[1].k = "Identifier" THEN UndefinedType(errs, known, e.x[1].n) ELSE errs
      [] OTHER -> errs

validateSymbolsInBlock(errs, known, stmts) ==
    FoldSeq(LAMBDA acc, s : Call("validateSymbolsInBlockStmt", <<acc, known, s>>), errs, stmts)

validateSymbolsInBlockStmt(errs, known, s) ==
    CASE s.k \in {"ExpressionStmt", "ShortVarDecl", "ReturnStmt", "ThrowStmt"} ->
            Call("validateSymbolsInExprs", <<errs, known, s.x>>)
      [] s.k = "AssignStmt" -> Call("validateSymbolsInExprs", <<errs, known, s.x \o s.y>>)
      [] s.k = "IfStmt" ->
            LET e1 == Call("validateSymbolsInBlock", <<validateSymbolsInExprs(errs, known, s.x), known, s.y>>)
            IN  IF s.z = <<>> THEN e1
                ELSE IF s.z[1].k = "BlockStmt" THEN Call("validateSymbolsInBlock", <<e1, known, s.z[1].y>>)
                ELSE IF s.z[1].k = "IfStmt" THEN Call("validateSymbolsInBlockStmt", <<e1, known, s.z[1]>>)
                ELSE e1
      [] s.k = "ForStmt" ->
            Call("validateSymbolsInBlock", <<validateSymbolsInExprs(errs, known, s.x), known, s.y>>)
      [] s.k = "TryStmt" ->
            Call("validateSymbolsInBlock", <<validateSymbolsInBlock(errs, known, s.y), known, s.z>>)
      [] OTHER -> errs

validateUndefinedSymbols(errs, file) ==
    LET importedTypes ==
            UNION {({spec.Alias, spec.TypeName} \ {""})
                   \cup (IF spec.IsGoImport /\ spec.PkgName /= "" THEN {spec.PkgName} ELSE {})
                   : spec \in SeqToSet(file.Imports)}
        definedTypes == {d.Name : d \in {x \in SeqToSet(file.Statements) :
                                            x.kind \in {"class", "interface", "struct"}}}
        known == importedTypes \cup definedTypes
    IN  FoldSeq(LAMBDA acc, d :
                    CASE d.kind \in {"class", "struct"} ->
                            FoldSeq(LAMBDA a2, m :
                                        IF m.HasBody THEN Call("validateSymbolsInBlock", <<a2, known, m.Body>>)
                                        ELSE a2,
                                    acc, d.Methods)
                      [] d.kind = "func" -> Call("validateSymbolsInBlock", <<acc, known, d.Body>>)
                      [] OTHER -> acc,
                errs, file.Statements)

----------------------------------------------------------------------------
(* transpiler: unused imports *)

collectUsedTypesInExprs(exprs) == UNION {Call("collectUsedTypesInExpr", <<e>>) : e \in SeqToSet(exprs)}

collectUsedTypesInExpr(e) ==
    CASE e.k = "CallExpr" ->
            (CASE e.x[1].k = "NewExpr" -> {e.x[1].n}
               [] e.x[1].k = "Identifier" -> {e.x[1].n}
               [] OTHER -> Call("collectUsedTypesInExpr", <<e.x[1]>>))
            \cup Call("collectUsedTypesInExprs", <<e.y>>)
      [] e.k = "NewExpr" -> {e.n}
      [] e.k = "StaticAccessExpr" -> IF e.x[1].k = "Identifier" THEN {e.x[1].n} ELSE {}
      [] e.k \in {"BinaryExpr", "UnaryExpr", "IndexExpr", "SelectorExpr"} ->
            Call("collectUsedTypesInExprs", <<e.x>>)
      [] e.k = "StructLiteral" -> {e.n} \cup Call("collectUsedTypesInExprs", <<e.y>>)
      [] OTHER -> {}

collectUsedTypesInBlock(stmts) == UNION {Call("collectUsedTypesInBlockStmt", <<s>>) : s \in SeqToSet(stmts)}

collectUsedTypesInBlockStmt(s) ==
    CASE s.k \in {"ExpressionStmt", "ShortVarDecl", "VarDecl", "ReturnStmt", "ThrowStmt"} ->
            Call("collectUsedTypesInExprs", <<s.x>>)
      [] s.k = "AssignStmt" -> Call("collectUsedTypesInExprs", <<s.x \o s.y>>)
      [] s.k = "IfStmt" ->
            Call("collectUsedTypesInExprs", <<s.x>>) \cup Call("collectUsedTypesInBlock", <<s.y>>)
            \cup (IF s.z = <<>> THEN {}
                  ELSE IF s.z[1].k = "BlockStmt" THEN Call("collectUsedTypesInBlock", <<s.z[1].y>>)
                  ELSE IF s.z[1].k = "IfStmt" THEN Call("collectUsedTypesInBlockStmt", <<s.z[1]>>)
                  ELSE {})
      [] s.k = "ForStmt" -> Call("collectUsedTypesInExprs", <<s.x>>) \cup Call("collectUsedTypesInBlock", <<s.y>>)
      [] s.k = "TryStmt" -> Call("collectUsedTypesInBlock", <<s.y>>) \cup Call("collectUsedTypesInBlock", <<s.z>>)
      [] OTHER -> {}

collectUsedTypes(file) ==
    UNION {CASE d.kind = "class" ->
                    ({d.Extends} \ {""}) \cup SeqToSet(d.Implements)
                    \cup UNION {Call("collectUsedTypesInBlock", <<m.Body>>) : m \in SeqToSet(d.Methods)}
             [] d.kind = "struct" ->
                    UNION {Call("collectUsedTypesInBlock", <<m.Body>>) : m \in SeqToSet(d.Methods)}
             [] d.kind = "func" -> Call("collectUsedTypesInBlock", <<d.Body>>)
             [] OTHER -> {}
           : d \in SeqToSet(file.Statements)}

ImportKey(spec) == IF spec.Alias /= "" THEN spec.Alias ELSE spec.TypeName

validateUnusedImports(errs, file, ord) ==
    LET specs == SelectSeq(file.Imports, LAMBDA spec : ~spec.IsGoImport)
        keys == [i \in 1..Len(specs) |-> ImportKey(specs[i])]
        usedTypes == collectUsedTypes(file)
    IN  FoldSeq(LAMBDA acc, typeName :
                    IF typeName \notin usedTypes
                    THEN Append(acc, Diag("ErrUnusedImport", typeName,
                                          specs[LastIndex(LAMBDA sp : ImportKey(sp) = typeName,
                                                          specs)].Path, "", 0, 0))
                    ELSE acc,
                errs, MapRange(keys, ord))

----------------------------------------------------------------------------
(* transpiler: overload signatures *)

GenerateParamSignature(params) ==
    FoldSeq(LAMBDA acc, p : IF acc = "" THEN p.Type ELSE acc \o "_" \o p.Type, "", params)

DuplicateSignatures(errs, typeName, methodName, methods) ==
    FoldSeq(LAMBDA acc, i :
                IF \E j \in 1..(i - 1) :
                        GenerateParamSignature(methods[j].Params)
                        = GenerateParamSignature(methods[i].Params)
                THEN Append(acc, Diag("ErrDuplicateOverloadSignature", typeName, methodName,
                                      GenerateParamSignature(methods[i].Params), 0, 0))
                ELSE acc,
            errs, [i \in 1..Len(methods) |-> i])

\* The variant of validateOverloads that reports every method whose signature
\* another method of the same name has, the first declared included.
validateOverloadsBoth(errs, classDecl, ord) ==
    LET names == [i \in 1..Len(classDecl.Methods) |-> classDecl.Methods[i].Name]
    IN  FoldSeq(LAMBDA acc, methodName :
                    LET methods == SelectSeq(classDecl.Methods, LAMBDA m : m.Name = methodName)
                    IN  FoldSeq(LAMBDA a2, i :
                                    IF \E j \in (1..Len(methods)) \ {i} :
                                            GenerateParamSignature(methods[j].Params)
                                            = GenerateParamSignature(methods[i].Params)
                                    THEN Append(a2, Diag("ErrDuplicateOverloadSignature",
                                                         classDecl.Name, methodName,
                                                         GenerateParamSignature(methods[i].Params),
                                                         0, 0))
                                    ELSE a2,
                                acc, [i \in 1..Len(methods) |-> i]),
                errs, MapRange(names, ord))

validateOverloads(errs, classDecl, ord) ==
    LET names == [i \in 1..Len(classDecl.Methods) |-> classDecl.Methods[i].Name]
    IN  FoldSeq(LAMBDA acc, methodName :
                    LET methods == SelectSeq(classDecl.Methods, LAMBDA m : m.Name = methodName)
                    IN  IF Len(methods) <= 1 THEN acc
                        ELSE DuplicateSignatures(acc, classDecl.Name, methodName, methods),
                errs, MapRange(names, ord))

validateStructOverloads(errs, structDecl, ord) == validateOverloads(errs, structDecl, ord)

----------------------------------------------------------------------------
(* transpiler: the Transpiler object, its declaration caches and lookups *)

NilDecl == Decl("", "<nil>", FALSE)

\* A cache map[string]*Decl, kept in insertion order: a sequence of [key, decl].
CachePut(c, k, d) ==
    LET i == FirstIndex(LAMBDA e : e.key = k, c)
    IN  IF i = 0 THEN Append(c, [key |-> k, decl |-> d])
        ELSE [c EXCEPT ![i] = [key |-> k, decl |-> d]]

CacheGet(c, k) ==
    LET i == FirstIndex(LAMBDA e : e.key = k, c)
    IN  IF i = 0 THEN NilDecl ELSE c[i].decl

\* New(table): the table is the variable of that name; imports, needFmt, config
\* and typeImports (import bookkeeping of the emitted file header) are not modelled.
New == [pkg |-> "", errors |-> <<>>, currentFile |-> "", skipValidation |-> FALSE,
        funcDecls |-> <<>>, classDecls |-> <<>>, interfaceDecls |-> <<>>,
        structDecls |-> <<>>]

GetFuncDecl(t, pkg, name) == CacheGet(t.funcDecls, key(pkg, name))

GetClassDecl(t, pkg, name) == CacheGet(t.classDecls, key(pkg, name))

HasPrefix(s, prefix) == Len(s) >= Len(prefix) /\ SubSeq(s, 1, Len(prefix)) = prefix

GetMethodByName(tbl, pkg, name, ord) ==
    LET ks == MapRange(tbl.order, ord)
        i == FirstIndex(LAMBDA k : IsMethodKind(tbl.symbols[k]) /\ tbl.symbols[k].Name = name
                                   /\ (tbl.symbols[k].Package = pkg \/ HasPrefix(k, pkg \o ".")),
                        ks)
        j == FirstIndex(LAMBDA k : IsMethodKind(tbl.symbols[k]) /\ tbl.symbols[k].Name = name, ks)
    IN  IF i /= 0 THEN tbl.symbols[ks[i]]
        ELSE IF j /= 0 THEN tbl.symbols[ks[j]]
        ELSE Nil

LookupMethodByName(t, tbl, name, ord) ==
    LET ks == MapRange([i \in 1..Len(t.classDecls) |-> t.classDecls[i].key], ord)
        has(k) == AnySeq(LAMBDA m : m.Name = name, CacheGet(t.classDecls, k).Methods)
        i == FirstIndex(has, ks)
        methods == CacheGet(t.classDecls, ks[i]).Methods
        method == methods[FirstIndex(LAMBDA m : m.Name = name, methods)]
        sym == GetMethodByName(tbl, t.pkg, name, ord)
    IN  IF i /= 0 THEN ToGoName(method.Name, IsPublicVis(method.Visibility))
        ELSE IF ~IsNil(sym) THEN sym.GoName
        ELSE ""

----------------------------------------------------------------------------
(* codegen: expressions *)

JoinStr(ss, sep) ==
    LET F[i \in 0..Len(ss)] ==
            IF i = 0 THEN "" ELSE IF i = 1 THEN ss[1] ELSE F[i - 1] \o sep \o ss[i]
    IN  F[Len(ss)]

RECURSIVE ToLower(_)
ToLower(s) ==
    IF s = "" THEN ""
    ELSE (IF FirstOf(s) \in DOMAIN LowerOf THEN LowerOf[FirstOf(s)] ELSE FirstOf(s))
         \o ToLower(RestOf(s))

\* g: the CodeGen fields read while statements are generated:
\*   [t, table, ord, typeToPackage, currentReceiver, currentClassDecl,
\*    currentStructDecl, currentStaticClass, currentFuncErrable, currentFuncResults]
\* with currentXxxDecl NilDecl when unset.  spec.FromGo is the field the AST
\* of internal/symbol names IsGoImport.
NewCodeGen(t, tbl, file, ord) ==
    [t |-> t, table |-> tbl, ord |-> ord,
     typeToPackage |->
        FoldSeq(LAMBDA acc, spec :
                    IF (~spec.IsGoImport) /\ spec.TypeName /= ""
                    THEN Put(acc, IF spec.Alias /= "" THEN spec.Alias ELSE spec.TypeName,
                             spec.PkgName)
                    ELSE acc,
                EmptyMap, file.Imports),
     currentReceiver |-> "", currentClassDecl |-> NilDecl, currentStructDecl |-> NilDecl,
     currentStaticClass |-> NilDecl, currentFuncErrable |-> FALSE,
     currentFuncResults |-> <<>>]

generateIdentifier(g, ident) ==
    LET sym == Get(g.table, g.t.pkg, ident.n)
    IN  IF ident.n \in DOMAIN g.typeToPackage THEN g.typeToPackage[ident.n] \o "." \o ident.n
        ELSE IF ~IsNil(sym) THEN sym.GoName
        ELSE ident.n

\* The member name a selector or static access resolves to in a declaration:
\* its field first, then its method, "" when it has neither.
MemberGoName(decl, sel) ==
    LET fi == FirstIndex(LAMBDA f : f.Name = sel, decl.Fields)
        mi == FirstIndex(LAMBDA m : m.Name = sel, decl.Methods)
    IN  IF fi /= 0
        THEN ToGoName(sel, IF decl.kind = "struct" THEN decl.Fields[fi].Public
                           ELSE IsPublicVis(decl.Fields[fi].Visibility))
        ELSE IF mi /= 0 THEN ToGoName(sel, IsPublicVis(decl.Methods[mi].Visibility))
        ELSE ""

generateArgs(g, args) ==
    JoinStr([i \in 1..Len(args) |-> Call("generateExpression", <<g, args[i]>>)], ", ")

generateDefaultParamCall(g, sym, args) ==
    LET funcName == sym.GoName
        optsName == funcName \o "__Opts"
        funcDecl == GetFuncDecl(g.t, sym.Package, sym.Name)
        idx == SelectSeq([i \in 1..Len(funcDecl.Params) |-> i],
                         LAMBDA i : i <= Len(args) \/ funcDecl.Params[i].DefaultValue /= <<>>)
        fields == [j \in 1..Len(idx) |->
                     ToGoName(funcDecl.Params[idx[j]].Name, TRUE) \o ": " \o
                     (IF idx[j] <= Len(args) THEN Call("generateExpression", <<g, args[idx[j]]>>)
                      ELSE Call("generateExpression", <<g, funcDecl.Params[idx[j]].DefaultValue[1]>>))]
    IN  IF Len(args) = 0 THEN funcName \o "(NewDefault__" \o optsName \o "())"
        ELSE IF IsNil(funcDecl) THEN funcName \o "(" \o Call("generateArgs", <<g, args>>) \o ")"
        ELSE funcName \o "(" \o optsName \o "{" \o JoinStr(fields, ", ") \o "})"

\* Calls of overloaded methods (Table.IsMethodOverloaded, GetOverloadGroup) are
\* not generated here: no program of the input universe that reaches code
\* generation calls a method its class declares twice.
generateCallExpr(g, e) ==
    LET fn == e.x[1]
        sym == Get(g.table, g.t.pkg, fn.n)
    IN  IF fn.k = "Identifier" /\ fn.n = "print" THEN "fmt.Print(" \o Call("generateArgs", <<g, e.y>>) \o ")"
        ELSE IF fn.k = "Identifier" /\ fn.n = "println"
        THEN "fmt.Println(" \o Call("generateArgs", <<g, e.y>>) \o ")"
        ELSE IF fn.k = "Identifier" /\ fn.n = "print_f"
        THEN "fmt.Printf(" \o Call("generateArgs", <<g, e.y>>) \o ")"
        ELSE IF fn.k = "Identifier" /\ fn.n = "errorf"
        THEN "fmt.Errorf(" \o Call("generateArgs", <<g, e.y>>) \o ")"
        ELSE IF fn.k = "Identifier" /\ (~IsNil(sym)) /\ sym.HasDefault
        THEN generateDefaultParamCall(g, sym, e.y)
        ELSE Call("generateExpression", <<g, fn>>) \o "(" \o Call("generateArgs", <<g, e.y>>) \o ")"

generateSelectorExpr(g, e) ==
    LET x == Call("generateExpression", <<g, e.x[1]>>)
        inStruct == IF IsNil(g.currentStructDecl) THEN "" ELSE MemberGoName(g.currentStructDecl, e.n)
        inClass == IF IsNil(g.currentClassDecl) THEN "" ELSE MemberGoName(g.currentClassDecl, e.n)
        methodGoName == LookupMethodByName(g.t, g.table, e.n, g.ord)
        sym == Get(g.table, g.t.pkg, e.n)
    IN  IF e.x[1].k = "ThisExpr" /\ inStruct /= "" THEN x \o "." \o inStruct
        ELSE IF e.x[1].k = "ThisExpr" /\ inClass /= "" THEN x \o "." \o inClass
        ELSE IF methodGoName /= "" THEN x \o "." \o methodGoName
        ELSE IF ~IsNil(sym) THEN x \o "." \o sym.GoName
        ELSE x \o "." \o e.n

generateStaticAccessExpr(g, e) ==
    LET left == e.x[1]
        className == IF left.k = "SelfExpr" THEN g.currentReceiver ELSE left.n
        classDecl == IF left.k = "SelfExpr" THEN g.currentStaticClass
                     ELSE GetClassDecl(g.t, g.t.pkg, className)
        pkgPrefix == IF left.k = "Identifier" /\ className \in DOMAIN g.typeToPackage
                     THEN g.typeToPackage[className] \o "." ELSE ""
        isClassPublic == IF IsNil(classDecl) THEN TRUE ELSE classDecl.Public
        goClassName == ToGoName(className, isClassPublic)
        fi == FirstIndex(LAMBDA f : f.Name = e.n, classDecl.Fields)
        mi == FirstIndex(LAMBDA m : m.Name = e.n, classDecl.Methods)
    IN  IF left.k \notin {"SelfExpr", "Identifier"} THEN "/* invalid static access */"
        ELSE IF e.n = "class" THEN pkgPrefix \o "_" \o goClassName \o "_classInfo"
        ELSE IF (~IsNil(classDecl)) /\ fi /= 0
        THEN IF classDecl.Fields[fi].Visibility = "public"
             THEN pkgPrefix \o goClassName \o ToGoName(e.n, TRUE)
             ELSE pkgPrefix \o "_" \o ToLower(classDecl.Name) \o "_" \o e.n
        ELSE IF (~IsNil(classDecl)) /\ mi /= 0
        THEN IF classDecl.Methods[mi].Visibility = "public"
             THEN pkgPrefix \o goClassName \o ToGoName(e.n, TRUE)
             ELSE pkgPrefix \o ToLower(FirstOf(classDecl.Name)) \o RestOf(classDecl.Name)
                  \o ToGoName(e.n, TRUE)
        ELSE pkgPrefix \o goClassName \o ToGoName(e.n, TRUE)

generateNewExpr(g, e) ==
    LET className == e.n
        pkgPrefix == IF className \in DOMAIN g.typeToPackage
                     THEN g.typeToPackage[className] \o "." ELSE ""
        classDecl == GetClassDecl(g.t, g.t.pkg, className)
        isClassPublic == IF IsNil(classDecl) THEN TRUE ELSE classDecl.Public
        hasInitParams == IF IsNil(classDecl) THEN TRUE
                         ELSE classDecl.InitMethod /= <<>>
                              /\ Len(classDecl.InitMethod[1].Params) > 0
        goClassName == ToGoName(className, isClassPublic)
    IN  IF Len(e.y) = 0
        THEN IF hasInitParams
             THEN pkgPrefix \o "New__" \o goClassName \o "(" \o pkgPrefix \o "NewDefault__"
                  \o goClassName \o "__InitOpts())"
             ELSE pkgPrefix \o "New__" \o goClassName \o "()"
        ELSE pkgPrefix \o "New__" \o goClassName \o "(" \o pkgPrefix \o goClassName
             \o "__InitOpts{" \o Call("generateArgs", <<g, e.y>>) \o "})"

generateExpression(g, e) ==
    CASE e.k = "Identifier"       -> generateIdentifier(g, e)
      [] e.k = "StringLiteral"    -> e.n
      [] e.k = "GoLit"            -> e.n
      [] e.k = "ThisExpr"         -> IF g.currentReceiver /= "" THEN g.currentReceiver ELSE "this"
      [] e.k = "SelfExpr"         -> "self"
      [] e.k = "StaticAccessExpr" -> generateStaticAccessExpr(g, e)
      [] e.k = "BinaryExpr"       -> Call("generateExpression", <<g, e.x[1]>>) \o " " \o e.n \o " "
                                     \o Call("generateExpression", <<g, e.x[2]>>)
      [] e.k = "UnaryExpr"        -> e.n \o Call("generateExpression", <<g, e.x[1]>>)
      [] e.k = "CallExpr"         -> generateCallExpr(g, e)
      [] e.k = "IndexExpr"        -> Call("generateExpression", <<g, e.x[1]>>) \o "["
                                     \o Call("generateExpression", <<g, e.x[2]>>) \o "]"
      [] e.k = "SelectorExpr"     -> generateSelectorExpr(g, e)
      [] e.k = "StructLiteral"    -> generateIdentifier(g, Ident(e.n)) \o "{"
                                     \o Call("generateArgs", <<g, e.y>>) \o "}"
      [] e.k = "NewExpr"          -> generateNewExpr(g, e)
      [] OTHER -> ""

----------------------------------------------------------------------------
(* codegen: errable calls *)

isErrableCall(g, e) ==
    /\ e.k = "CallExpr"
    /\ LET fn == e.x[1]
           sym == Get(g.table, g.t.pkg, fn.n)
       IN  IF fn.k = "Identifier" THEN (~IsNil(sym)) /\ sym.Errable
           ELSE IF fn.k = "SelectorExpr"
           THEN \E s \in GetAll(g.table) :
                    IsMethodKind(s) /\ ToLower(s.Name) = ToLower(fn.n) /\ s.Errable
           ELSE FALSE

containsErrableCall(g, e) ==
    \/ Call("isErrableCall", <<g, e>>)
    \/ CASE e.k = "CallExpr"     -> \E i \in 1..Len(e.y) : Call("containsErrableCall", <<g, e.y[i]>>)
         [] e.k = "BinaryExpr"   -> Call("containsErrableCall", <<g, e.x[1]>>) \/ Call("containsErrableCall", <<g, e.x[2]>>)
         [] e.k = "UnaryExpr"    -> Call("containsErrableCall", <<g, e.x[1]>>)
         [] e.k = "IndexExpr"    -> Call("containsErrableCall", <<g, e.x[1]>>) \/ Call("containsErrableCall", <<g, e.x[2]>>)
         [] e.k = "SelectorExpr" -> Call("containsErrableCall", <<g, e.x[1]>>)
         [] OTHER -> FALSE

\* For a method call the first matching symbol of the range over GetAll().
getErrableFuncResultCount(g, call) ==
    LET fn == call.x[1]
        sym == Get(g.table, g.t.pkg, fn.n)
        ks == MapRange(g.table.order, g.ord)
        i == FirstIndex(LAMBDA k : IsMethodKind(g.table.symbols[k])
                                   /\ ToLower(g.table.symbols[k].Name) = ToLower(fn.n)
                                   /\ g.table.symbols[k].Errable, ks)
    IN  IF fn.k = "Identifier" /\ (~IsNil(sym)) /\ sym.Errable THEN sym.ResultCount
        ELSE IF fn.k = "SelectorExpr" /\ i /= 0 THEN g.table.symbols[ks[i]].ResultCount
        ELSE 1

----------------------------------------------------------------------------
(* codegen: the generated Go statements *)

\* The emitted text is kept in n; the children are kept as trees so that the
\* control flow of the generated function can be followed.
GoExpr(text, e)             == Node("GoExpr", text, <<e>>, <<>>, <<>>)
GoDefine(text, names, e)    == Node("GoDefine", text, <<e>>, <<>>, [i \in 1..Len(names) |-> Ident(names[i])])
GoAssign(text, left, right) == Node("GoAssign", text, left, right, <<>>)
GoVar(text, name, optValue) == Node("GoVar", text, optValue, <<>>, <<Ident(name)>>)
GoOnce(label, body)         == Node("GoOnce", label, <<>>, body, <<>>)
GoIfErr(var, body)          == Node("GoIfErr", var, <<>>, body, <<>>)
GoBreak(label)              == Node("GoBreak", label, <<>>, <<>>, <<>>)
GoContinue                  == Node("GoContinue", "", <<>>, <<>>, <<>>)
GoReturn(text, values)      == Node("GoReturn", text, values, <<>>, <<>>)
GoIf(text, cond, cons, alt) == Node("GoIf", text, <<cond>>, cons, alt)
GoFor(text, optCond, body)  == Node("GoFor", text, optCond, body, <<>>)
GoRange(text, X, body)      == Node("GoRange", text, <<X>>, body, <<>>)
GoCase(text, exprs, body)   == Node("GoCase", text, exprs, body, <<>>)
GoSwitch(text, optTag, cases) == Node("GoSwitch", text, optTag, <<>>, cases)
GoBlock(body)               == Node("GoBlock", "", <<>>, body, <<>>)
GoLit(text)                 == Node("GoLit", text, <<>>, <<>>, <<>>)

\* st: what generation threads through the statements of one file:
\*   code (the lines written so far, as statements), tryCounter, tmpCounter,
\*   errors (transpiler.errors).
Emit(st, stmt) == [st EXCEPT !.code = Append(@, stmt)]

EmitAll(st, stmts) == [st EXCEPT !.code = @ \o stmts]

getTypeZeroValue(typ) ==
    CASE typ \in {"int", "int8", "int16", "int32", "int64"}      -> "0"
      [] typ \in {"uint", "uint8", "uint16", "uint32", "uint64"} -> "0"
      [] typ \in {"float32", "float64"} -> "0.0"
      [] typ = "bool"   -> "false"
      [] typ = "string" -> "\"\""
      [] typ \in {"byte", "rune"} -> "0"
      [] OTHER -> "nil"

ZeroValues(g) == [i \in 1..Len(g.currentFuncResults) |-> getTypeZeroValue(g.currentFuncResults[i].Type)]

generateZeroValues(g) ==
    IF Len(g.currentFuncResults) = 0 THEN "" ELSE JoinStr(ZeroValues(g), ", ") \o ", "

ZeroLits(g) == [i \in 1..Len(g.currentFuncResults) |-> GoLit(ZeroValues(g)[i])]

NameList(idents) == JoinStr([i \in 1..Len(idents) |-> idents[i].n], ", ")

generateVarDecl(g, st, s) ==
    Emit(st, GoVar("var " \o s.n \o
                   (IF s.x = <<>> THEN "" ELSE " = " \o Call("generateExpression", <<g, s.x[1]>>)),
                   s.n, s.x))

generateShortVarDecl(g, st, s) ==
    Emit(st, GoDefine(NameList(s.z) \o " := " \o Call("generateExpression", <<g, s.x[1]>>),
                      [i \in 1..Len(s.z) |-> s.z[i].n], s.x[1]))

generateAssignStmt(g, st, s) ==
    Emit(st, GoAssign(Call("generateArgs", <<g, s.x>>) \o " " \o s.n \o " " \o Call("generateArgs", <<g, s.y>>), s.x, s.y))

generateReturnStmt(g, st, s) ==
    IF Len(s.x) = 0
    THEN IF g.currentFuncErrable THEN Emit(st, GoReturn("return nil", <<GoLit("nil")>>))
         ELSE Emit(st, GoReturn("return", <<>>))
    ELSE IF g.currentFuncErrable /\ ~(Len(s.x) = 1 /\ Call("isErrableCall", <<g, s.x[1]>>))
    THEN Emit(st, GoReturn("return " \o Call("generateArgs", <<g, s.x>>) \o ", nil", Append(s.x, GoLit("nil"))))
    ELSE Emit(st, GoReturn("return " \o Call("generateArgs", <<g, s.x>>), s.x))

generateThrowStmt(g, st, s) ==
    Emit(st, GoReturn("return " \o generateZeroValues(g) \o Call("generateExpression", <<g, s.x[1]>>),
                      Append(ZeroLits(g), s.x[1])))

generateErrableCallStmt(g, st, e) ==
    LET resultCount == Call("getErrableFuncResultCount", <<g, e>>)
        names == [i \in 1..resultCount |-> "_"] \o <<"err">>
    IN  EmitAll(st, << GoDefine(JoinStr(names, ", ") \o " := " \o Call("generateExpression", <<g, e>>),
                                names, e),
                       GoIfErr("err", <<GoReturn("return " \o generateZeroValues(g) \o "err",
                                                 Append(ZeroLits(g), Ident("err")))>>) >>)

\* if _err != nil { _tryErr_N = _err; break _TryBlock_N }
TryErrCheck(labelName, errVarName) ==
    GoIfErr("_err", << GoAssign(errVarName \o " = _err", <<Ident(errVarName)>>, <<Ident("_err")>>),
                       GoBreak(labelName) >>)

----------------------------------------------------------------------------
(* codegen: try/catch and statements *)

TmpVars(from, count) == [i \in 1..count |-> "_tmp" \o ToString(from + i)]

\* Returns [st, e]: the statements written for the extracted calls and the
\* expression that replaces e.
extractErrableCallsIn(g, st, es, labelName, errVarName) ==
    FoldSeq(LAMBDA acc, e :
                LET r == Call("extractErrableCalls", <<g, acc.st, e, labelName, errVarName>>)
                IN  [st |-> r.st, es |-> Append(acc.es, r.e)],
            [st |-> st, es |-> <<>>], es)

extractErrableCalls(g, st, e, labelName, errVarName) ==
    IF e.k = "CallExpr" /\ Call("isErrableCall", <<g, e>>)
    THEN LET resultCount == Call("getErrableFuncResultCount", <<g, e>>)
             tmpVars == TmpVars(st.tmpCounter, resultCount)
             names == tmpVars \o <<"_err">>
             st1 == EmitAll([st EXCEPT !.tmpCounter = @ + resultCount],
                            << GoDefine(JoinStr(names, ", ") \o " := " \o Call("generateExpression", <<g, e>>),
                                        names, e),
                               TryErrCheck(labelName, errVarName) >>)
         IN  [st |-> st1,
              e |-> IF resultCount = 0 THEN Ident("_")
                    ELSE IF resultCount = 1 THEN Ident(tmpVars[1])
                    ELSE Ident("$$MULTI$$" \o JoinStr(tmpVars, ","))]
    ELSE IF e.k = "CallExpr"
    THEN LET r == Call("extractErrableCallsIn", <<g, st, e.y, labelName, errVarName>>)
         IN  [st |-> r.st, e |-> CallExpr(e.x[1], r.es)]
    ELSE IF e.k \in {"BinaryExpr", "UnaryExpr"}
    THEN LET r == Call("extractErrableCallsIn", <<g, st, e.x, labelName, errVarName>>)
         IN  [st |-> r.st, e |-> [e EXCEPT !.x = r.es]]
    ELSE [st |-> st, e |-> e]

IsMulti(e) == e.k = "Identifier" /\ HasPrefix(e.n, "$$MULTI$$")

\* strings.TrimPrefix(v, "$$MULTI$$")
TrimMulti(e) == SubSeq(e.n, 10, Len(e.n))

\* strings.Join(strings.Split(values, ","), ", ")
RECURSIVE SplitJoin(_)
SplitJoin(s) ==
    IF s = "" THEN ""
    ELSE (IF FirstOf(s) = "," THEN ", " ELSE FirstOf(s)) \o SplitJoin(RestOf(s))

generateCallExprWithMultiValueExpansion(g, call) ==
    Call("generateExpression", <<g, call.x[1]>>) \o "("
    \o JoinStr([i \in 1..Len(call.y) |->
                    IF IsMulti(call.y[i]) THEN SplitJoin(TrimMulti(call.y[i]))
                    ELSE Call("generateExpressionFromExtracted", <<g, call.y[i]>>)], ", ")
    \o ")"

generateExpressionFromExtracted(g, e) ==
    IF e.k = "Identifier" THEN (IF IsMulti(e) THEN TrimMulti(e) ELSE e.n)
    ELSE IF e.k = "CallExpr" THEN generateCallExprWithMultiValueExpansion(g, e)
    ELSE Call("generateExpression", <<g, e>>)

tryBlockNeedsErrorHandling(g, stmts) ==
    \E i \in 1..Len(stmts) : Call("statementNeedsErrorHandling", <<g, stmts[i]>>)

statementNeedsErrorHandling(g, s) ==
    CASE s.k = "ThrowStmt"      -> TRUE
      [] s.k = "ShortVarDecl"   -> Call("containsErrableCall", <<g, s.x[1]>>)
      [] s.k = "AssignStmt"     -> \E i \in 1..Len(s.y) : Call("containsErrableCall", <<g, s.y[i]>>)
      [] s.k = "ExpressionStmt" -> Call("containsErrableCall", <<g, s.x[1]>>)
      [] s.k = "IfStmt" ->
            \/ Call("tryBlockNeedsErrorHandling", <<g, s.y>>)
            \/ (s.z /= <<>> /\ Call("statementNeedsErrorHandling", <<g, s.z[1]>>))
      [] s.k \in {"ForStmt", "RangeStmt", "BlockStmt"} -> Call("tryBlockNeedsErrorHandling", <<g, s.y>>)
      [] OTHER -> FALSE

generateStatements(g, st, stmts) ==
    FoldSeq(LAMBDA acc, s : Call("generateStatement", <<g, acc, s>>), st, stmts)

\* The statements of a nested body, written on their own and handed to wrap.
Nested(g, st, stmts, wrap(_)) ==
    LET r == Call("generateStatements", <<g, [st EXCEPT !.code = <<>>], stmts>>)
    IN  [r EXCEPT !.code = Append(st.code, wrap(r.code))]

generateTryBlockStatement(g, st, s, labelName, errVarName) ==
    CASE s.k = "ShortVarDecl" /\ Call("isErrableCall", <<g, s.x[1]>>) ->
            LET resultCount == Call("getErrableFuncResultCount", <<g, s.x[1]>>)
                names == [i \in 1..Len(s.z) |-> s.z[i].n] \o <<"_err">>
            IN  IF Len(s.z) > resultCount
                THEN Call("generateStatement", <<g, [st EXCEPT !.errors =
                        Append(@, Diag("ErrTooManyVariables", "", "", "", resultCount, Len(s.z)))], s>>)
                ELSE EmitAll(st, << GoDefine(JoinStr(names, ", ") \o " := "
                                             \o Call("generateExpression", <<g, s.x[1]>>), names, s.x[1]),
                                    TryErrCheck(labelName, errVarName) >>)
      [] s.k = "AssignStmt" /\ (\E i \in 1..Len(s.y) : Call("isErrableCall", <<g, s.y[i]>>)) ->
            EmitAll(st, << GoAssign(Call("generateArgs", <<g, s.x>>) \o ", _err " \o s.n \o " "
                                    \o Call("generateArgs", <<g, s.y>>), Append(s.x, Ident("_err")), s.y),
                           TryErrCheck(labelName, errVarName) >>)
      [] s.k = "ExpressionStmt" /\ Call("isErrableCall", <<g, s.x[1]>>) ->
            LET resultCount == Call("getErrableFuncResultCount", <<g, s.x[1]>>)
                names == IF resultCount = 1 THEN <<"_", "_err">> ELSE <<"_err">>
            IN  IF resultCount > 1
                THEN Call("generateStatement", <<g, [st EXCEPT !.errors =
                        Append(@, Diag("ErrErrableMultiReturnNoAssign", "", "", "", resultCount, 0))], s>>)
                ELSE EmitAll(st, << GoDefine(JoinStr(names, ", ") \o " := "
                                             \o Call("generateExpression", <<g, s.x[1]>>), names, s.x[1]),
                                    TryErrCheck(labelName, errVarName) >>)
      [] s.k = "ExpressionStmt" /\ Call("containsErrableCall", <<g, s.x[1]>>) ->
            LET r == Call("extractErrableCalls", <<g, st, s.x[1], labelName, errVarName>>)
            IN  Emit(r.st, GoExpr(Call("generateExpressionFromExtracted", <<g, r.e>>), r.e))
      [] s.k = "ThrowStmt" ->
            EmitAll(st, << GoAssign(errVarName \o " = " \o Call("generateExpression", <<g, s.x[1]>>),
                                    <<Ident(errVarName)>>, s.x),
                           GoBreak(labelName) >>)
      [] OTHER -> Call("generateStatement", <<g, st, s>>)

generateTryStmt(g, st, s) ==
    IF ~Call("tryBlockNeedsErrorHandling", <<g, s.y>>)
    THEN Nested(g, st, s.y, GoBlock)
    ELSE LET n == st.tryCounter + 1
             labelName == "_TryBlock_" \o ToString(n)
             errVarName == "_tryErr_" \o ToString(n)
             body == FoldSeq(LAMBDA acc, b :
                                Call("generateTryBlockStatement", <<g, acc, b, labelName, errVarName>>),
                             [st EXCEPT !.code = <<>>, !.tryCounter = n, !.tmpCounter = 0], s.y)
             catch == Call("generateStatements", <<g, [body EXCEPT !.code = <<>>], s.z>>)
             bind == IF s.n /= "" THEN <<GoDefine(s.n \o " := " \o errVarName, <<s.n>>,
                                                  Ident(errVarName))>>
                     ELSE <<>>
         IN  [catch EXCEPT
                !.tmpCounter = st.tmpCounter,
                !.code = Append(st.code,
                            GoBlock(<< GoVar("var " \o errVarName \o " error", errVarName, <<>>),
                                       GoOnce(labelName, body.code),
                                       GoIfErr(errVarName, bind \o catch.code) >>))]

generateIfStmt(g, st, s) ==
    LET cons == Call("generateStatements", <<g, [st EXCEPT !.code = <<>>], s.y>>)
        alt == IF s.z = <<>> THEN [cons EXCEPT !.code = <<>>]
               ELSE IF s.z[1].k = "BlockStmt"
               THEN Call("generateStatements", <<g, [cons EXCEPT !.code = <<>>], s.z[1].y>>)
               ELSE Call("generateStatement", <<g, [cons EXCEPT !.code = <<>>], s.z[1]>>)
    IN  [alt EXCEPT !.code = Append(st.code, GoIf("if " \o Call("generateExpression", <<g, s.x[1]>>),
                                                  s.x[1], cons.code, alt.code))]

generateSwitchStmt(g, st, s) ==
    LET r == FoldSeq(LAMBDA acc, c :
                        Nested(g, acc, c.y,
                               LAMBDA body : GoCase(IF Len(c.x) = 0 THEN "default:"
                                                    ELSE "case " \o Call("generateArgs", <<g, c.x>>) \o ":",
                                                    c.x, body)),
                     [st EXCEPT !.code = <<>>], s.z)
    IN  [r EXCEPT !.code = Append(st.code,
                                  GoSwitch("switch " \o Call("generateArgs", <<g, s.x>>), s.x, r.code))]

generateStatement(g, st, s) ==
    CASE s.k = "VarDecl"      -> generateVarDecl(g, st, s)
      [] s.k = "ShortVarDecl" -> generateShortVarDecl(g, st, s)
      [] s.k = "AssignStmt"   -> generateAssignStmt(g, st, s)
      [] s.k = "ReturnStmt"   -> generateReturnStmt(g, st, s)
      [] s.k = "ThrowStmt"    -> generateThrowStmt(g, st, s)
      [] s.k = "TryStmt"      -> generateTryStmt(g, st, s)
      [] s.k = "IfStmt"       -> generateIfStmt(g, st, s)
      [] s.k = "ForStmt" ->
            Nested(g, st, s.y, LAMBDA body : GoFor("for " \o Call("generateArgs", <<g, s.x>>), s.x, body))
      [] s.k = "RangeStmt" ->
            Nested(g, st, s.y, LAMBDA body : GoRange("for range " \o Call("generateExpression", <<g, s.x[1]>>),
                                                     s.x[1], body))
      [] s.k = "SwitchStmt"   -> generateSwitchStmt(g, st, s)
      [] s.k = "BreakStmt"    -> Emit(st, GoBreak(""))
      [] s.k = "ContinueStmt" -> Emit(st, GoContinue)
      [] s.k = "BlockStmt"    -> Nested(g, st, s.y, GoBlock)
      [] s.k = "ExpressionStmt" ->
            IF g.currentFuncErrable /\ Call("isErrableCall", <<g, s.x[1]>>)
            THEN generateErrableCallStmt(g, st, s.x[1])
            ELSE Emit(st, GoExpr(Call("generateExpression", <<g, s.x[1]>>), s.x[1]))
      [] OTHER -> st

----------------------------------------------------------------------------
(* codegen: declarations *)

\* One generated Go function: its name, the declaration it was generated
\* from (Owner "" for a top-level function), whether its signature ends in
\* error, the number of its other results, and its body.
GoFunc(name, owner, source, hasError, results, body) ==
    [Name |-> name, Owner |-> owner, Source |-> source, HasError |-> hasError,
     NResults |-> Len(results), Body |-> body, Var |-> FALSE, Embed |-> ""]

\* One generated package-level variable, "var name type", of static field
\* source of class owner.
GoPackageVar(name, owner, source) ==
    [GoFunc(name, owner, source, FALSE, <<>>, <<>>) EXCEPT !.Var = TRUE]

EmitVar(st, name, owner, source) ==
    [st EXCEPT !.code = Append(@, GoPackageVar(name, owner, source))]

\* One generated struct type of class owner, "type name struct { embedded
\* ... }": embedded is the member written first, "*Parent" or "parentBase".
GoStruct(name, owner, embedded) ==
    [GoFunc(name, owner, "", FALSE, <<>>, <<>>) EXCEPT !.Embed = embedded]

\* Generates body under g and appends the function to st.code.
EmitFunc(g, st, name, owner, source, hasError, results, body) ==
    LET r == Call("generateStatements", <<g, [st EXCEPT !.code = <<>>], body>>)
    IN  [r EXCEPT !.code = Append(st.code, GoFunc(name, owner, source, hasError, results, r.code))]

\* func Name(opts Name__Opts) results { ... }: the declared results only, and
\* the body generated as that of a function that is not errable.
generateFuncWithDefaults(g, st, decl) ==
    Call("EmitFunc", <<g, st, ToGoName(decl.Name, decl.Public), "", decl.Name, FALSE,
             decl.Results, decl.Body>>)

generateFuncDecl(g, st, decl) ==
    IF HasDefaultParam(decl.Params) THEN generateFuncWithDefaults(g, st, decl)
    ELSE Call("EmitFunc", <<[g EXCEPT !.currentFuncErrable = decl.Errable,
                                       !.currentFuncResults = decl.Results],
             st, ToGoName(decl.Name, decl.Public), "", decl.Name, decl.Errable,
             decl.Results, decl.Body>>)

generateStructMethod(g, st, decl, method) ==
    Call("EmitFunc", <<[g EXCEPT !.currentReceiver = "s", !.currentStructDecl = decl,
                       !.currentFuncErrable = method.Errable,
                       !.currentFuncResults = method.Results],
             st, ToGoName(method.Name, method.Visibility = "public"), decl.Name, method.Name,
             method.Errable, method.Results, method.Body>>)

generateStructDecl(g, st, decl) ==
    FoldSeq(LAMBDA acc, m : generateStructMethod(g, acc, decl, m), st, decl.Methods)

generateStaticClassMethod(g, st, decl, className, method) ==
    Call("EmitFunc", <<g, st,
             IF method.Visibility = "public" THEN className \o ToGoName(method.Name, TRUE)
             ELSE ToLower(FirstOf(decl.Name)) \o RestOf(decl.Name) \o ToGoName(method.Name, TRUE),
             decl.Name, method.Name, FALSE, method.Results, method.Body>>)

generateStaticClass(g, st, decl, className) ==
    LET st1 == FoldSeq(LAMBDA acc, field :
                          EmitVar(acc,
                                  IF field.Visibility = "public"
                                  THEN className \o ToGoName(field.Name, TRUE)
                                  ELSE "_" \o ToLower(decl.Name) \o "_" \o field.Name,
                                  decl.Name, field.Name),
                       st, decl.Fields)
    IN  FoldSeq(LAMBDA acc, m :
                    generateStaticClassMethod([g EXCEPT !.currentReceiver = className,
                                                        !.currentStaticClass = decl],
                                              acc, decl, className, m),
                st1, decl.Methods)

getReceiverName(params, defaultName) ==
    LET conflict(name) == AnySeq(LAMBDA p : p.Name = name, params)
        alternativeNames == <<"this", "self", "recv", "_t", "_this", "_self">>
        i == FirstIndex(LAMBDA name : ~conflict(name), alternativeNames)
    IN  IF ~conflict(defaultName) THEN defaultName
        ELSE IF i /= 0 THEN alternativeNames[i]
        ELSE "_recv0"

generateClassMethod(g, st, decl, className, method) ==
    Call("EmitFunc", <<[g EXCEPT !.currentReceiver = getReceiverName(method.Params, "t"),
                       !.currentFuncErrable = method.Errable,
                       !.currentFuncResults = method.Results],
             st, ToGoName(method.Name, IsPublicVis(method.Visibility)), decl.Name, method.Name,
             method.Errable, method.Results, method.Body>>)

\* func New__X(...): the body of init, with this as t.
generateClassConstructor(g, st, decl, className) ==
    FoldSeq(LAMBDA acc, init :
                Call("EmitFunc", <<[g EXCEPT !.currentReceiver = "t"], acc, "New__" \o className,
                         decl.Name, "init", FALSE, <<>>, init.Body>>),
            st, decl.InitMethod)

generateGoMainFunc(g, st, decl, method) ==
    Call("EmitFunc", <<g, st, "main", decl.Name, method.Name, FALSE, <<>>, method.Body>>)

generateNormalClass(g, st, decl, className) ==
    LET g1 == [g EXCEPT !.currentClassDecl = decl]
        isEntryClass == IsEntryClass(g.t.pkg, g.t.currentFile, decl)
        mainIdx == IF isEntryClass
                   THEN FirstIndex(LAMBDA m : m.Name = "main" /\ m.Static, decl.Methods) ELSE 0
        st0 == FoldSeq(LAMBDA acc, field :
                          IF field.Static
                          THEN EmitVar(acc, "_" \o className \o "_" \o field.Name,
                                       decl.Name, field.Name)
                          ELSE acc,
                       st, decl.Fields)
        st1 == Call("generateClassConstructor", <<g1, st0, decl, className>>)
        st2 == FoldSeq(LAMBDA acc, i :
                          IF i = mainIdx THEN acc
                          ELSE Call("generateClassMethod", <<g1, acc, decl, className, decl.Methods[i]>>),
                       st1, [i \in 1..Len(decl.Methods) |-> i])
    IN  IF mainIdx /= 0 THEN generateGoMainFunc(g1, st2, decl, decl.Methods[mainIdx]) ELSE st2

generateAbstractClass(g, st, decl, className) ==
    FoldSeq(LAMBDA acc, m : Call("generateClassMethod", <<g, acc, decl, ToGoName(decl.Name, FALSE) \o "Base", m>>),
            st, decl.Methods)

\* func New__className(params) *className { t := &className{}; <init body>;
\* return t }. The constructor with defaulted parameters writes the same
\* statements around the init body.
generateChildClassConstructorSimple(g, st, decl, className) ==
    LET r == Call("generateStatements", <<[g EXCEPT !.currentReceiver = "t"],
                      [st EXCEPT !.code = <<>>], decl.InitMethod[1].Body>>)
    IN  [r EXCEPT !.code =
            Append(st.code,
                   GoFunc("New__" \o className, decl.Name, "init", FALSE, <<"*" \o className>>,
                          <<GoDefine("t := &" \o className \o "{}", <<"t">>,
                                     GoLit("&" \o className \o "{}"))>>
                          \o r.code
                          \o <<GoReturn("return t", <<Ident("t")>>)>>))]

\* func New__className() *className { t := &className{}; return t }
generateChildClassDefaultConstructor(g, st, decl, className) ==
    [st EXCEPT !.code =
        Append(@, GoFunc("New__" \o className, decl.Name, "init", FALSE, <<"*" \o className>>,
                         <<GoDefine("t := &" \o className \o "{}", <<"t">>,
                                    GoLit("&" \o className \o "{}")),
                           GoReturn("return t", <<Ident("t")>>)>>))]

generateChildClass(g, st, decl, className) ==
    LET parentName == ToGoName(decl.Extends, TRUE)
        parentBaseName == ToGoName(decl.Extends, FALSE) \o "Base"
        parentInfo == GetClass(g.table, g.t.pkg, decl.Extends)
        st0 == FoldSeq(LAMBDA acc, field :
                          IF field.Static
                          THEN EmitVar(acc, "_" \o className \o "_" \o field.Name,
                                       decl.Name, field.Name)
                          ELSE acc,
                       st, decl.Fields)
        st1 == [st0 EXCEPT !.code =
                   Append(@, GoStruct(className, decl.Name,
                                      IF (~IsNil(parentInfo)) /\ parentInfo.Abstract
                                      THEN parentBaseName ELSE "*" \o parentName))]
        st2 == IF decl.InitMethod /= <<>>
               THEN generateChildClassConstructorSimple(g, st1, decl, className)
               ELSE generateChildClassDefaultConstructor(g, st1, decl, className)
    IN  FoldSeq(LAMBDA acc, m : Call("generateClassMethod", <<g, acc, decl, className, m>>),
                st2, decl.Methods)

generateClassDecl(g, st, decl) ==
    LET className == ToGoName(decl.Name, decl.Public)
    IN  IF decl.Static THEN generateStaticClass(g, st, decl, className)
        ELSE IF decl.Abstract THEN generateAbstractClass(g, st, decl, className)
        ELSE IF decl.Extends /= "" THEN generateChildClass(g, st, decl, className)
        ELSE generateNormalClass(g, st, decl, className)

\* Returns [code, errors]: the functions of the generated file and
\* transpiler.errors after generation.
Generate(t, tbl, file, ord) ==
    LET g == NewCodeGen(t, tbl, file, ord)
        st == FoldSeq(LAMBDA acc, d :
                        CASE d.kind = "func"   -> generateFuncDecl(g, acc, d)
                          [] d.kind = "struct" -> generateStructDecl(g, acc, d)
                          [] d.kind = "class"  -> generateClassDecl(g, acc, d)
                          [] OTHER -> acc,
                      [code |-> <<>>, tryCounter |-> 0, tmpCounter |-> 0, errors |-> t.errors],
                      file.Statements)
    IN  [code |-> st.code, errors |-> st.errors]

----------------------------------------------------------------------------
(* transpiler: TranspileFileWithName *)

CacheDecls(t, file) ==
    FoldSeq(LAMBDA acc, d :
                CASE d.kind = "func" ->
                        [acc EXCEPT !.funcDecls = CachePut(@, key(acc.pkg, d.Name), d)]
                  [] d.kind = "class" ->
                        [acc EXCEPT !.classDecls = CachePut(@, key(acc.pkg, d.Name), d)]
                  [] d.kind = "interface" ->
                        [acc EXCEPT !.interfaceDecls = CachePut(@, key(acc.pkg, d.Name), d)]
                  [] d.kind = "struct" ->
                        [acc EXCEPT !.structDecls = CachePut(@, key(acc.pkg, d.Name), d)]
                  [] OTHER -> acc,
            t, file.Statements)

\* The checks of one class declaration, in the order of the loop body.
ValidateClassDecl(errs, tbl, pkg, currentFile, file, classDecl, ord) ==
    LET e1 == IF classDecl.Static THEN validateStaticClass(errs, classDecl) ELSE errs
        e2 == IF Len(classDecl.Implements) > 0 THEN validateImplements(e1, tbl, pkg, classDecl)
              ELSE e1
        e3 == IF classDecl.Extends /= "" THEN validateExtends(e2, tbl, pkg, classDecl, file)
              ELSE e2
        e4 == IF IsEntryClass(pkg, currentFile, classDecl) THEN validateMainMethod(e3, classDecl)
              ELSE e3
    IN  validateOverloads(e4, classDecl, ord)

ValidateStructDecl(errs, tbl, pkg, structDecl, ord) ==
    validateStructOverloads(
        IF Len(structDecl.Implements) > 0 THEN validateStructImplements(errs, tbl, pkg, structDecl)
        ELSE errs,
        structDecl, ord)

\* A pass that runs only while nothing has been reported.
Unless(errs, pass(_)) == IF errs /= <<>> THEN errs ELSE pass(errs)

\* The passes in the order of Validate, given up at the first that reports.
ValidateUntilFirstReport(t, tbl, file, fileName, ord) ==
    LET pkg == file.Package
        skip == t.skipValidation
    IN  Unless(Unless(Unless(Unless(Unless(Unless(
            IF skip THEN <<>> ELSE validateTopLevelStatements(<<>>, file),
            LAMBDA e : IF skip \/ fileName = "" THEN e ELSE validateFileNaming(e, file, fileName)),
            LAMBDA e : FoldSeq(LAMBDA acc, d :
                                  IF acc /= <<>> THEN acc
                                  ELSE IF d.kind = "class"
                                  THEN ValidateClassDecl(acc, tbl, pkg, fileName, file, d, ord)
                                  ELSE IF d.kind = "struct"
                                  THEN ValidateStructDecl(acc, tbl, pkg, d, ord)
                                  ELSE acc,
                               e, file.Statements)),
            LAMBDA e : validateErrableCalls(e, tbl, pkg, file)),
            LAMBDA e : validateVisibility(e, tbl, pkg, file)),
            LAMBDA e : IF skip THEN e ELSE validateUndefinedSymbols(e, file)),
            LAMBDA e : validateUnusedImports(e, file, ord))

\* t.errors when the validation passes have run.
\* The variant of Validate in which the flag suppresses the unused-import
\* check as well.
ValidateSkipImports(t, tbl, file, fileName, ord) ==
    LET pkg == file.Package
        e1 == IF ~t.skipValidation THEN validateTopLevelStatements(<<>>, file) ELSE <<>>
        e2 == IF (~t.skipValidation) /\ fileName /= "" THEN validateFileNaming(e1, file, fileName)
              ELSE e1
        e3 == FoldSeq(LAMBDA acc, d :
                        CASE d.kind = "class" ->
                                ValidateClassDecl(acc, tbl, pkg, fileName, file, d, ord)
                          [] d.kind = "struct" -> ValidateStructDecl(acc, tbl, pkg, d, ord)
                          [] OTHER -> acc,
                      e2, file.Statements)
        e4 == validateErrableCalls(e3, tbl, pkg, file)
        e5 == validateVisibility(e4, tbl, pkg, file)
        e6 == IF ~t.skipValidation THEN validateUndefinedSymbols(e5, file) ELSE e5
    IN  IF ~t.skipValidation THEN validateUnusedImports(e6, file, ord) ELSE e6

Validate(t, tbl, file, fileName, ord) ==
    LET pkg == file.Package
        e1 == IF ~t.skipValidation THEN validateTopLevelStatements(<<>>, file) ELSE <<>>
        e2 == IF (~t.skipValidation) /\ fileName /= "" THEN validateFileNaming(e1, file, fileName)
              ELSE e1
        e3 == FoldSeq(LAMBDA acc, d :
                        CASE d.kind = "class" ->
                                ValidateClassDecl(acc, tbl, pkg, fileName, file, d, ord)
                          [] d.kind = "struct" -> ValidateStructDecl(acc, tbl, pkg, d, ord)
                          [] OTHER -> acc,
                      e2, file.Statements)
        e4 == validateErrableCalls(e3, tbl, pkg, file)
        e5 == validateVisibility(e4, tbl, pkg, file)
        e6 == IF ~t.skipValidation THEN validateUndefinedSymbols(e5, file) ELSE e5
    IN  validateUnusedImports(e6, file, ord)

\* The variant of TranspileFileWithName that returns the generated file
\* without looking at the error list again.
TranspileFileUnchecked(t, tbl, file, fileName, ord) ==
    LET t1 == CacheDecls([t EXCEPT !.pkg = file.Package, !.errors = <<>>,
                                   !.currentFile = fileName], file)
        t2 == [t1 EXCEPT !.errors = Call("Validate", <<t1, tbl, file, fileName, ord>>)]
        gen == Call("Generate", <<t2, tbl, file, ord>>)
        t3 == [t2 EXCEPT !.errors = gen.errors]
    IN  IF Len(t2.errors) > 0
        THEN [t |-> t2, code |-> <<>>, errors |-> t2.errors, ok |-> FALSE]
        ELSE [t |-> t3, code |-> gen.code, errors |-> <<>>, ok |-> TRUE]

\* Returns [t, code, errors, ok]: the Transpiler after the call and what the
\* call returned (the generated file, or the *ImplementsError's list).
TranspileFileWithName(t, tbl, file, fileName, ord) ==
    LET t1 == CacheDecls([t EXCEPT !.pkg = file.Package, !.errors = <<>>,
                                   !.currentFile = fileName], file)
        t2 == [t1 EXCEPT !.errors = Call("Validate", <<t1, tbl, file, fileName, ord>>)]
        gen == Call("Generate", <<t2, tbl, file, ord>>)
        t3 == [t2 EXCEPT !.errors = gen.errors]
    IN  IF Len(t2.errors) > 0
        THEN [t |-> t2, code |-> <<>>, errors |-> t2.errors, ok |-> FALSE]
        ELSE IF Len(t3.errors) > 0
        THEN [t |-> t3, code |-> <<>>, errors |-> t3.errors, ok |-> FALSE]
        ELSE [t |-> t3, code |-> gen.code, errors |-> <<>>, ok |-> TRUE]

----------------------------------------------------------------------------
(* The generated code at run time *)

\* c: [decls, cls, fail, conds]: the class declarations of the package, the
\*    class of the running method, the number of the errable invocation that
\*    fails (0: none) and the outcomes of the conditions in evaluation order.
\* m: [status, label, env, trace, n, nc, ret]: status is "run", "return",
\*    "break" or "continue"; trace lists the calls made, each with its first
\*    argument and the failure it returned ("" when it succeeded).

Event(fn, arg, err) == [fn |-> fn, arg |-> arg, err |-> err]

NoCallee == [Name |-> "<nil>", Errable |-> FALSE, Results |-> <<>>]

\* The method a call denotes: this.m() is method m of the running class,
\* C::m() and self::m() method m of the named class, f() the builtin errorf
\* or an unknown function of one result.
Callee(c, fn) ==
    LET className == IF fn.k = "SelectorExpr" /\ fn.x[1].k = "ThisExpr" THEN c.cls
                     ELSE IF fn.k = "StaticAccessExpr" /\ fn.x[1].k = "SelfExpr" THEN c.cls
                     ELSE IF fn.k = "StaticAccessExpr" /\ fn.x[1].k = "Identifier" THEN fn.x[1].n
                     ELSE ""
        ci == FirstIndex(LAMBDA d : d.kind = "class" /\ d.Name = className, c.decls)
        mi == IF ci = 0 THEN 0
              ELSE FirstIndex(LAMBDA x : x.Name = fn.n, c.decls[ci].Methods)
    IN  IF mi = 0 THEN NoCallee ELSE c.decls[ci].Methods[mi]

\* The number of values a Go expression yields: a call yields the results of
\* its function, and an error after them when the function is errable.
Arity(c, e) ==
    IF e.k = "CallExpr" /\ ~IsNil(Callee(c, e.x[1]))
    THEN Len(Callee(c, e.x[1]).Results) + (IF Callee(c, e.x[1]).Errable THEN 1 ELSE 0)
    ELSE 1

EvalAll(c, m, es) ==
    FoldSeq(LAMBDA acc, e :
                LET r == Call("Eval", <<c, acc.m, e>>)
                IN  [m |-> r.m, vals |-> acc.vals \o r.vals],
            [m |-> m, vals |-> <<>>], es)

EvalCall(c, m, e) ==
    LET callee == Callee(c, e.x[1])
        a == Call("EvalAll", <<c, m, e.y>>)
        arg == IF Len(a.vals) > 0 THEN a.vals[1] ELSE ""
        k == a.m.n + 1
        fails == callee.Errable /\ k = c.fail
        err == IF fails THEN "E:" \o callee.Name ELSE ""
        vals == [i \in 1..Len(callee.Results) |-> IF fails THEN "0" ELSE "v:" \o callee.Name]
    IN  IF e.x[1].k = "Identifier" /\ e.x[1].n = "errorf"
        THEN [m |-> a.m, vals |-> <<"E:errorf">>]
        ELSE IF IsNil(callee) THEN [m |-> a.m, vals |-> <<"v">>]
        ELSE [m |-> [a.m EXCEPT !.trace = Append(@, Event(callee.Name, arg, err)),
                                !.n = IF callee.Errable THEN k ELSE @],
              vals |-> IF callee.Errable THEN Append(vals, IF fails THEN err ELSE "nil")
                       ELSE vals]

Eval(c, m, e) ==
    CASE e.k = "CallExpr"   -> Call("EvalCall", <<c, m, e>>)
      [] e.k = "Identifier" -> [m |-> m, vals |-> <<Lookup(m.env, e.n, e.n)>>]
      [] e.k \in {"GoLit", "StringLiteral", "ThisExpr", "SelfExpr"} -> [m |-> m, vals |-> <<e.n>>]
      [] OTHER -> [m |-> Call("EvalAll", <<c, Call("EvalAll", <<c, m, e.x>>).m, e.y>>).m, vals |-> <<"v">>]

\* The next condition's outcome; conditions past the listed ones are false.
Cond(c, m) == m.nc + 1 <= Len(c.conds) /\ c.conds[m.nc + 1]

Bind(env, targets, vals) ==
    FoldSeq(LAMBDA acc, i :
                IF i <= Len(vals) /\ targets[i].k = "Identifier" /\ targets[i].n /= "_"
                THEN Put(acc, targets[i].n, vals[i]) ELSE acc,
            env, [i \in 1..Len(targets) |-> i])

\* A loop or switch body has run: an unlabelled break or continue ends there.
EndLoop(m, label) ==
    IF (m.status = "break" /\ m.label \in {"", label}) \/ (m.status = "continue" /\ m.label = "")
    THEN [m EXCEPT !.status = "run", !.label = ""]
    ELSE m

ExecAll(c, m, stmts) == FoldSeq(LAMBDA acc, s : Call("Exec", <<c, acc, s>>), m, stmts)

ExecBranch(c, m, s) ==
    LET r == Call("EvalAll", <<c, m, s.x>>).m
        taken == Cond(c, r)
        r1 == [r EXCEPT !.nc = @ + 1]
    IN  CASE s.k = "GoIf" -> Call("ExecAll", <<c, r1, IF taken THEN s.y ELSE s.z>>)
          [] s.k \in {"GoFor", "GoRange"} ->
                IF taken THEN EndLoop(Call("ExecAll", <<c, r1, s.y>>), "") ELSE r1
          [] s.k = "GoSwitch" ->
                IF taken /\ Len(s.z) > 0
                THEN EndLoop(Call("ExecAll", <<c, Call("EvalAll", <<c, r1, s.z[1].x>>).m, s.z[1].y>>), "") ELSE r1

Exec(c, m, s) ==
    IF m.status /= "run" THEN m
    ELSE CASE s.k = "GoExpr"   -> Call("Eval", <<c, m, s.x[1]>>).m
           [] s.k = "GoDefine" ->
                LET r == Call("Eval", <<c, m, s.x[1]>>) IN [r.m EXCEPT !.env = Bind(@, s.z, r.vals)]
           [] s.k = "GoAssign" ->
                LET r == Call("EvalAll", <<c, m, s.y>>) IN [r.m EXCEPT !.env = Bind(@, s.x, r.vals)]
           [] s.k = "GoVar" ->
                LET r == Call("EvalAll", <<c, m, s.x>>)
                IN  [r.m EXCEPT !.env = Put(@, s.z[1].n, IF s.x = <<>> THEN "nil" ELSE r.vals[1])]
           [] s.k = "GoOnce"  -> EndLoop(Call("ExecAll", <<c, m, s.y>>), s.n)
           [] s.k = "GoIfErr" ->
                IF Lookup(m.env, s.n, "nil") /= "nil" THEN Call("ExecAll", <<c, m, s.y>>) ELSE m
           [] s.k = "GoBreak"    -> [m EXCEPT !.status = "break", !.label = s.n]
           [] s.k = "GoContinue" -> [m EXCEPT !.status = "continue", !.label = ""]
           [] s.k = "GoReturn" ->
                LET r == Call("EvalAll", <<c, m, s.x>>) IN [r.m EXCEPT !.status = "return", !.ret = r.vals]
           [] s.k = "GoBlock" -> Call("ExecAll", <<c, m, s.y>>)
           [] s.k \in {"GoIf", "GoFor", "GoRange", "GoSwitch"} -> ExecBranch(c, m, s)
           [] OTHER -> m

\* Go's assignment-count rules for the statements generated here.
WellFormedAll(c, fn, stmts) == \A i \in 1..Len(stmts) : Call("WellFormed", <<c, fn, stmts[i]>>)

TotalArity(c, es) == FoldSeq(LAMBDA acc, e : acc + Arity(c, e), 0, es)

WellFormed(c, fn, s) ==
    CASE s.k = "GoDefine" -> Len(s.z) = Arity(c, s.x[1])
      [] s.k = "GoAssign" -> Len(s.x) = TotalArity(c, s.y)
      [] s.k = "GoVar"    -> s.x = <<>> \/ Arity(c, s.x[1]) = 1
      [] s.k = "GoReturn" -> TotalArity(c, s.x) = fn.NResults + (IF fn.HasError THEN 1 ELSE 0)
      [] s.k = "GoIf"     -> Call("WellFormedAll", <<c, fn, s.y>>) /\ Call("WellFormedAll", <<c, fn, s.z>>)
      [] s.k = "GoSwitch" -> \A i \in 1..Len(s.z) : Call("WellFormedAll", <<c, fn, s.z[i].y>>)
      [] s.k \in {"GoOnce", "GoIfErr", "GoBlock", "GoFor", "GoRange"} -> Call("WellFormedAll", <<c, fn, s.y>>)
      [] OTHER -> TRUE

\* One call of the generated function fn: [fn, owner, valid, trace, returned, ret].
Run(decls, fn, fail, conds) ==
    LET c == [decls |-> decls, cls |-> fn.Owner, fail |-> fail, conds |-> conds]
        m == Call("ExecAll", <<c, [status |-> "run", label |-> "", env |-> EmptyMap, trace |-> <<>>,
                         n |-> 0, nc |-> 0, ret |-> <<>>], fn.Body>>)
    IN  [fn |-> fn.Source, owner |-> fn.Owner, valid |-> Call("WellFormedAll", <<c, fn, fn.Body>>),
         trace |-> m.trace, returned |-> m.status = "return", ret |-> m.ret]

----------------------------------------------------------------------------
(* Calls by name *)

Call(fn, a) ==
    CASE fn = "exprContainsThis" -> exprContainsThis(a[1])
      [] fn = "containsThis" -> containsThis(a[1])
      [] fn = "stmtContainsThis" -> stmtContainsThis(a[1])
      [] fn = "validateErrableCallsInExprs" -> validateErrableCallsInExprs(a[1], a[2], a[3], a[4])
      [] fn = "validateErrableCallsInExpr" -> validateErrableCallsInExpr(a[1], a[2], a[3], a[4])
      [] fn = "validateErrableCallsInBlock" -> validateErrableCallsInBlock(a[1], a[2], a[3], a[4])
      [] fn = "validateErrableCallsInStmt" -> validateErrableCallsInStmt(a[1], a[2], a[3], a[4])
      [] fn = "validateErrableCallsInFunc" -> validateErrableCallsInFunc(a[1], a[2], a[3], a[4], a[5], a[6])
      [] fn = "validateVisibilityInExprs" -> validateVisibilityInExprs(a[1], a[2], a[3], a[4])
      [] fn = "validateVisibilityInExpr" -> validateVisibilityInExpr(a[1], a[2], a[3], a[4])
      [] fn = "validateVisibilityInBlock" -> validateVisibilityInBlock(a[1], a[2], a[3])
      [] fn = "validateVisibilityInStmt" -> validateVisibilityInStmt(a[1], a[2], a[3])
      [] fn = "validateVisibilityInBody" -> validateVisibilityInBody(a[1], a[2], a[3])
      [] fn = "VisExprs" -> VisExprs(a[1], a[2], a[3])
      [] fn = "validateSymbolsInExprs" -> validateSymbolsInExprs(a[1], a[2], a[3])
      [] fn = "validateSymbolsInExpr" -> validateSymbolsInExpr(a[1], a[2], a[3])
      [] fn = "validateSymbolsInBlock" -> validateSymbolsInBlock(a[1], a[2], a[3])
      [] fn = "validateSymbolsInBlockStmt" -> validateSymbolsInBlockStmt(a[1], a[2], a[3])
      [] fn = "collectUsedTypesInExprs" -> collectUsedTypesInExprs(a[1])
      [] fn = "collectUsedTypesInExpr" -> collectUsedTypesInExpr(a[1])
      [] fn = "collectUsedTypesInBlock" -> collectUsedTypesInBlock(a[1])
      [] fn = "collectUsedTypesInBlockStmt" -> collectUsedTypesInBlockStmt(a[1])
      [] fn = "generateArgs" -> generateArgs(a[1], a[2])
      [] fn = "generateExpression" -> generateExpression(a[1], a[2])
      [] fn = "isErrableCall" -> isErrableCall(a[1], a[2])
      [] fn = "containsErrableCall" -> containsErrableCall(a[1], a[2])
      [] fn = "getErrableFuncResultCount" -> getErrableFuncResultCount(a[1], a[2])
      [] fn = "extractErrableCallsIn" -> extractErrableCallsIn(a[1], a[2], a[3], a[4], a[5])
      [] fn = "extractErrableCalls" -> extractErrableCalls(a[1], a[2], a[3], a[4], a[5])
      [] fn = "generateExpressionFromExtracted" -> generateExpressionFromExtracted(a[1], a[2])
      [] fn = "tryBlockNeedsErrorHandling" -> tryBlockNeedsErrorHandling(a[1], a[2])
      [] fn = "statementNeedsErrorHandling" -> statementNeedsErrorHandling(a[1], a[2])
      [] fn = "generateStatements" -> generateStatements(a[1], a[2], a[3])
      [] fn = "generateTryBlockStatement" -> generateTryBlockStatement(a[1], a[2], a[3], a[4], a[5])
      [] fn = "generateStatement" -> generateStatement(a[1], a[2], a[3])
      [] fn = "EmitFunc" -> EmitFunc(a[1], a[2], a[3], a[4], a[5], a[6], a[7], a[8])
      [] fn = "generateClassMethod" -> generateClassMethod(a[1], a[2], a[3], a[4], a[5])
      [] fn = "generateClassConstructor" -> generateClassConstructor(a[1], a[2], a[3], a[4])
      [] fn = "EvalAll" -> EvalAll(a[1], a[2], a[3])
      [] fn = "Eval" -> Eval(a[1], a[2], a[3])
      [] fn = "EvalCall" -> EvalCall(a[1], a[2], a[3])
      [] fn = "ExecAll" -> ExecAll(a[1], a[2], a[3])
      [] fn = "Exec" -> Exec(a[1], a[2], a[3])
      [] fn = "WellFormedAll" -> WellFormedAll(a[1], a[2], a[3])
      [] fn = "WellFormed" -> WellFormed(a[1], a[2], a[3])
      [] fn = "Validate" -> Validate(a[1], a[2], a[3], a[4], a[5])
      [] fn = "Generate" -> Generate(a[1], a[2], a[3], a[4])
      [] fn = "TranspileFileWithName" -> TranspileFileWithName(a[1], a[2], a[3], a[4], a[5])
      [] fn = "Run" -> Run(a[1], a[2], a[3], a[4])

----------------------------------------------------------------------------
(* The programs handed to the transpiler *)

This(m, args) == CallExpr(SelectorExpr(ThisExpr, m), args)

Method(name, errable, nparams, nresults, body) ==
    ClassMethod(name, "public", FALSE, errable, Fields(nparams), Fields(nresults), body)

\* The errable call (or throw) a body is about, as statements.
Payload(pl) ==
    CASE pl = "call"    -> <<ExpressionStmt(This("risky", <<>>))>>
      [] pl = "call1"   -> <<ExpressionStmt(This("fetch", <<>>))>>
      [] pl = "call2"   -> <<ExpressionStmt(This("pair", <<>>))>>
      [] pl = "define"  -> <<ShortVarDecl(<<Ident("x")>>, This("fetch", <<>>))>>
      [] pl = "define0" -> <<ShortVarDecl(<<Ident("x")>>, This("risky", <<>>))>>
      [] pl = "assign"  -> <<AssignStmt(<<Ident("x")>>, <<This("fetch", <<>>)>>)>>
      [] pl = "arg"     -> <<ExpressionStmt(This("safe", <<This("fetch", <<>>)>>))>>
      [] pl = "throw"   -> <<ThrowStmt(CallExpr(Ident("errorf"), <<StringLit("boom")>>))>>
      [] pl = "return"  -> <<ReturnStmt(<<This("fetch", <<>>)>>)>>
      [] pl = "static"  -> <<ExpressionStmt(CallExpr(StaticAccessExpr(Ident("Util"), "risky"), <<>>))>>
      [] pl = "forcond" -> <<ForStmt(<<This("risky", <<>>)>>, <<>>)>>
      [] pl = "collide" -> <<ExpressionStmt(This("run", <<>>))>>
      [] pl = "none"    -> <<ExpressionStmt(This("safe", <<Ident("x")>>))>>

\* The statement form the payload is nested in.
Nest(cx, stmts) ==
    CASE cx = "direct" -> stmts
      [] cx = "if"     -> <<IfStmt(Ident("c"), stmts, <<>>)>>
      [] cx = "else"   -> <<IfStmt(Ident("c"), <<>>, <<BlockStmt(stmts)>>)>>
      [] cx = "elseif" -> <<IfStmt(Ident("c"), <<>>, <<IfStmt(Ident("d"), stmts, <<>>)>>)>>
      [] cx = "for"    -> <<ForStmt(<<Ident("c")>>, stmts)>>
      [] cx = "range"  -> <<RangeStmt(Ident("xs"), stmts)>>
      [] cx = "switch" -> <<SwitchStmt(<<Ident("c")>>, <<CaseClause(<<Ident("d")>>, stmts)>>)>>
      [] cx = "block"  -> <<BlockStmt(stmts)>>
      [] cx = "forif"  -> <<ForStmt(<<Ident("c")>>, <<IfStmt(Ident("d"), stmts, <<>>)>>)>>

\* f's body: the nested payload and a later call, on their own or as the body
\* of a try whose catch calls handler(e), followed by a call after the try.
BodyOf(p) ==
    LET core == Nest(p.ctx, Payload(p.payload)) \o <<ExpressionStmt(This("later", <<>>))>>
        tail == IF p.ferr THEN <<ReturnStmt(<<Ident("x")>>)>> ELSE <<>>
    IN  IF p.shape = "try"
        THEN << TryStmt(core, "e", <<ExpressionStmt(This("handler", <<Ident("e")>>))>>),
                ExpressionStmt(This("after", <<>>)) >> \o tail
        ELSE core \o tail

BodyFile(p) ==
    File("app", <<>>,
         << ClassDecl("K", FALSE,
                << Method("risky", TRUE, 0, 0, <<>>), Method("fetch", TRUE, 0, 1, <<>>),
                   Method("pair", TRUE, 0, 2, <<>>),
                   Method("safe", FALSE, 1, 1, <<>>), Method("later", FALSE, 0, 0, <<>>),
                   Method("handler", FALSE, 1, 0, <<>>), Method("after", FALSE, 0, 0, <<>>),
                   Method("f", p.ferr, 0, IF p.ferr THEN 1 ELSE 0, BodyOf(p)) >>
                \o (IF p.payload = "collide" THEN <<Method("run", TRUE, 0, 0, <<>>)>> ELSE <<>>)) >>
         \o (IF p.payload = "static"
             THEN <<[ClassDecl("Util", FALSE, <<Method("risky", TRUE, 0, 0, <<>>)>>)
                        EXCEPT !.Static = TRUE]>>
             ELSE <<>>)
         \o (IF p.payload = "collide"
             THEN <<ClassDecl("Z", FALSE, <<Method("run", FALSE, 0, 0, <<>>)>>)>>
             ELSE <<>>))

Contexts == {"direct", "if", "else", "elseif", "for", "range", "switch", "block", "forif"}

BodyProjects ==
    {[fam |-> "body", ferr |-> fe, shape |-> sh, ctx |-> cx, payload |-> "call"] :
        fe \in BOOLEAN, sh \in {"plain", "try"}, cx \in Contexts}
    \cup {[fam |-> "body", ferr |-> fe, shape |-> sh, ctx |-> cx, payload |-> "throw"] :
        fe \in BOOLEAN, sh \in {"plain", "try"}, cx \in {"direct", "if", "for"}}
    \cup {[fam |-> "body", ferr |-> fe, shape |-> sh, ctx |-> "direct", payload |-> pl] :
        fe \in BOOLEAN, sh \in {"plain", "try"},
        pl \in {"call1", "call2", "define", "define0", "assign", "arg", "none"}}
    \cup {[fam |-> "body", ferr |-> TRUE, shape |-> "plain", ctx |-> cx, payload |-> "return"] :
        cx \in {"direct", "if"}}
    \cup {[fam |-> "body", ferr |-> FALSE, shape |-> "plain", ctx |-> "direct", payload |-> pl] :
        pl \in {"static", "forcond", "collide"}}

----------------------------------------------------------------------------
(* The programs: static classes, class hierarchies, interfaces, packages *)

\* this.v, and the statement of a static method's body that mentions it at
\* position pos ("none": no mention).
ThisV == SelectorExpr(ThisExpr, "v")

ThisAt(pos) ==
    CASE pos = "none"       -> ExpressionStmt(CallExpr(Ident("g"), <<Ident("x")>>))
      [] pos = "call"       -> ExpressionStmt(This("g", <<>>))
      [] pos = "arg"        -> ExpressionStmt(CallExpr(Ident("g"), <<ThisV>>))
      [] pos = "binary"     -> ExpressionStmt(BinaryExpr(Ident("x"), ThisV))
      [] pos = "unary"      -> ExpressionStmt(UnaryExpr(ThisV))
      [] pos = "index"      -> ExpressionStmt(IndexExpr(Ident("xs"), ThisV))
      [] pos = "return"     -> ReturnStmt(<<ThisV>>)
      [] pos = "assignL"    -> AssignStmt(<<ThisV>>, <<Ident("x")>>)
      [] pos = "assignR"    -> AssignStmt(<<Ident("x")>>, <<ThisV>>)
      [] pos = "ifcond"     -> IfStmt(ThisV, <<>>, <<>>)
      [] pos = "ifbody"     -> IfStmt(Ident("c"), <<ReturnStmt(<<ThisV>>)>>, <<>>)
      [] pos = "else"       -> IfStmt(Ident("c"), <<>>, <<BlockStmt(<<ReturnStmt(<<ThisV>>)>>)>>)
      [] pos = "elseif"     -> IfStmt(Ident("c"), <<>>,
                                      <<IfStmt(Ident("d"), <<ReturnStmt(<<ThisV>>)>>, <<>>)>>)
      [] pos = "forcond"    -> ForStmt(<<ThisV>>, <<>>)
      [] pos = "forbody"    -> ForStmt(<<Ident("c")>>, <<ReturnStmt(<<ThisV>>)>>)
      [] pos = "rangeX"     -> RangeStmt(ThisV, <<>>)
      [] pos = "rangebody"  -> RangeStmt(Ident("xs"), <<ReturnStmt(<<ThisV>>)>>)
      [] pos = "switchtag"  -> SwitchStmt(<<ThisV>>, <<>>)
      [] pos = "switchbody" -> SwitchStmt(<<Ident("c")>>,
                                          <<CaseClause(<<Ident("d")>>, <<ReturnStmt(<<ThisV>>)>>)>>)
      [] pos = "block"      -> BlockStmt(<<ReturnStmt(<<ThisV>>)>>)
      [] pos = "try"        -> TryStmt(<<ExpressionStmt(This("g", <<>>))>>, "e", <<>>)
      [] pos = "catch"      -> TryStmt(<<>>, "e", <<ExpressionStmt(This("g", <<>>))>>)
      [] pos = "throw"      -> ThrowStmt(ThisV)
      [] pos = "define"     -> ShortVarDecl(<<Ident("x")>>, ThisV)
      [] pos = "var"        -> VarDecl("x", <<ThisV>>)
      [] pos = "newarg"     -> ExpressionStmt(NewExpr("K", <<ThisV>>))

Positions ==
    {"none", "call", "arg", "binary", "unary", "index", "return", "assignL", "assignR",
     "ifcond", "ifbody", "else", "elseif", "forcond", "forbody", "rangeX", "rangebody",
     "switchtag", "switchbody", "block", "try", "catch", "throw", "define", "var", "newarg"}

StaticFile(p) ==
    File("app", <<>>,
         << [ClassDecl("K", FALSE, << Method("g", FALSE, 1, 0, <<>>),
                                      Method("f", FALSE, 0, 0, <<ThisAt(p.pos)>>) >>)
                EXCEPT !.Static = TRUE,
                       !.InitMethod = IF p.init THEN <<Method("init", FALSE, 0, 0, <<>>)>>
                                      ELSE <<>>] >>)

StaticProjects ==
    {[fam |-> "static", pos |-> pos, init |-> FALSE] : pos \in Positions}
    \cup {[fam |-> "static", pos |-> pos, init |-> TRUE] : pos \in {"none", "call"}}

\* G is abstract with abstract a(x); P extends G when p.grand, is abstract with
\* abstract b() int when p.parent = "abstract", a plain class when "concrete",
\* a static class when "static",
\* imported from package lib when "imported", not declared when "missing";
\* C extends P and declares the methods p.impl names.
ImplMethods(impl) ==
    CASE impl = "all"  -> <<Method("a", FALSE, 1, 0, <<>>), Method("b", FALSE, 0, 1, <<>>)>>
      [] impl = "noA"  -> <<Method("b", FALSE, 0, 1, <<>>)>>
      [] impl = "noB"  -> <<Method("a", FALSE, 1, 0, <<>>)>>
      [] impl = "badB" -> <<Method("a", FALSE, 1, 0, <<>>), Method("b", FALSE, 1, 1, <<>>)>>
      [] impl = "none" -> <<>>

ExtendsFile(p) ==
    File("app",
         IF p.parent = "imported" THEN <<ImportSpec("P", "", "lib", FALSE)>> ELSE <<>>,
         (IF p.grand
          THEN <<[ClassDecl("G", FALSE, <<>>) EXCEPT
                     !.Abstract = TRUE,
                     !.AbstractMethods = <<AbstractMethod("a", Fields(1), <<>>)>>]>>
          ELSE <<>>)
         \o (IF p.parent = "abstract"
             THEN <<[ClassDecl("P", FALSE, <<>>) EXCEPT
                        !.Abstract = TRUE, !.Extends = IF p.grand THEN "G" ELSE "",
                        !.AbstractMethods = <<AbstractMethod("b", <<>>, Fields(1))>>]>>
             ELSE IF p.parent = "concrete"
             THEN <<[ClassDecl("P", FALSE, <<>>) EXCEPT !.Extends = IF p.grand THEN "G" ELSE ""]>>
             ELSE IF p.parent = "static"
             THEN <<[ClassDecl("P", FALSE, <<>>) EXCEPT !.Static = TRUE]>>
             ELSE <<>>)
         \o <<[ClassDecl("C", FALSE, ImplMethods(p.impl)) EXCEPT
                  !.Extends = "P", !.Abstract = p.child = "abstract"]>>)

ExtendsProjects ==
    {[fam |-> "extends", parent |-> "abstract", grand |-> gr, child |-> ch, impl |-> im] :
        gr \in BOOLEAN, ch \in {"concrete", "abstract"},
        im \in {"all", "noA", "noB", "badB", "none"}}
    \cup {[fam |-> "extends", parent |-> pa, grand |-> FALSE, child |-> ch, impl |-> "all"] :
        pa \in {"concrete", "static", "missing", "imported"}, ch \in {"concrete", "abstract"}}

\* interface I { m1(x) int; m2() }, and a class or struct K implements I that
\* declares the methods p.have names.
HaveMethods(have) ==
    CASE have = "all"  -> <<Method("m1", FALSE, 1, 1, <<>>), Method("m2", FALSE, 0, 0, <<>>)>>
      [] have = "no1"  -> <<Method("m2", FALSE, 0, 0, <<>>)>>
      [] have = "no2"  -> <<Method("m1", FALSE, 1, 1, <<>>)>>
      [] have = "bad1" -> <<Method("m1", FALSE, 2, 1, <<>>), Method("m2", FALSE, 0, 0, <<>>)>>
      [] have = "overload" ->
            <<Method("m1", FALSE, 1, 1, <<>>), Method("m1", FALSE, 2, 1, <<>>),
              Method("m2", FALSE, 0, 0, <<>>)>>

IfaceFile(p) ==
    File("app", <<>>,
         << InterfaceDecl("I", FALSE, << FuncSignature("m1", Fields(1), Fields(1)),
                                         FuncSignature("m2", <<>>, <<>>) >>),
            [Decl(p.kind, "K", FALSE) EXCEPT !.Methods = HaveMethods(p.have),
                                             !.Implements = <<"I">>] >>)

IfaceProjects ==
    {[fam |-> "iface", kind |-> kd, have |-> hv] :
        kd \in {"class", "struct"}, hv \in {"all", "no1", "no2", "bad1", "overload"}}

\* Programs of several files, and files that several passes report on.
Entry(name, ast) == [name |-> name, ast |-> ast]

\* left::member() as a statement, and var x = left::member.
StaticCall(left, member) == ExpressionStmt(CallExpr(StaticAccessExpr(left, member), <<>>))

StaticRead(left, member) == VarDecl("x", <<StaticAccessExpr(left, member)>>)

\* throw errorf("boom") as a body, and results of every kind of zero value.
Boom == <<ThrowStmt(CallExpr(Ident("errorf"), <<StringLit("boom")>>))>>

MixedResults ==
    << Field("", "int", <<>>), Field("", "float64", <<>>), Field("", "bool", <<>>),
       Field("", "string", <<>>), Field("", "K", <<>>) >>

\* The parameters (a int = 1, b int = 2).
TwoDefaults ==
    <<Field("a", "int", <<StringLit("1")>>), Field("b", "int", <<StringLit("2")>>)>>

MultiFiles(p) ==
    CASE p.id = "newOther" ->
            \* B.f creates an A, a class of the same package declared in A's file
            << Entry("A", File("app", <<>>, <<ClassDecl("A", FALSE, <<>>)>>)),
               Entry("B", File("app", <<>>,
                     <<ClassDecl("B", FALSE,
                                 <<Method("f", FALSE, 0, 0,
                                          <<VarDecl("x", <<NewExpr("A", <<>>)>>)>>)>>)>>)) >>
      [] p.id = "overloads" ->
            << Entry("K", File("app", <<>>,
                     <<ClassDecl("K", FALSE,
                                 << Method("m", FALSE, 1, 0, <<>>), Method("m", FALSE, 1, 0, <<>>),
                                    Method("n", FALSE, 1, 0, <<>>), Method("n", FALSE, 1, 0, <<>>) >>)>>)) >>
      [] p.id = "imports" ->
            << Entry("K", File("app", <<ImportSpec("P", "", "lib", FALSE),
                                        ImportSpec("Q", "", "lib", FALSE)>>,
                               <<ClassDecl("K", FALSE, <<>>)>>)) >>
      [] p.id = "unhandled" ->
            << Entry("K", File("app", <<>>,
                     <<ClassDecl("K", FALSE,
                                 << Method("risky", TRUE, 0, 0, <<>>),
                                    Method("fetch", TRUE, 0, 1, <<>>),
                                    Method("f", FALSE, 0, 0,
                                           << ExpressionStmt(This("risky", <<>>)),
                                              ShortVarDecl(<<Ident("x")>>, This("fetch", <<>>)) >>) >>)>>)) >>
      [] p.id = "undefined" ->
            \* K.f creates an object of a type that is declared and imported nowhere
            << Entry("K", File("app", <<>>,
                     <<ClassDecl("K", FALSE,
                                 <<Method("f", FALSE, 0, 0,
                                          <<ShortVarDecl(<<Ident("x")>>,
                                                         NewExpr("Missing", <<>>))>>)>>)>>)) >>
      [] p.id = "staticMembers" ->
            \* the static class Util reads its own static members through
            \* self::, the public class K those of Util and its own
            << Entry("K", File("app", <<>>,
                     << [ClassDecl("Util", FALSE,
                                   << ClassMethod("pub", "public", TRUE, FALSE, <<>>, <<>>, <<>>),
                                      ClassMethod("priv", "private", TRUE, FALSE, <<>>, <<>>, <<>>),
                                      ClassMethod("g", "public", TRUE, FALSE, <<>>, <<>>,
                                          << StaticCall(SelfExpr, "pub"),
                                             StaticCall(SelfExpr, "priv"),
                                             StaticRead(SelfExpr, "hidden") >>) >>)
                            EXCEPT !.Static = TRUE,
                                   !.Fields = << ClassField("count", "public", TRUE),
                                                 ClassField("hidden", "private", TRUE) >>],
                        [ClassDecl("K", TRUE,
                                   << ClassMethod("helper", "public", TRUE, FALSE, <<>>, <<>>, <<>>),
                                      Method("f", FALSE, 0, 0,
                                          << StaticCall(Ident("Util"), "pub"),
                                             StaticRead(Ident("Util"), "count"),
                                             StaticCall(Ident("K"), "helper") >>),
                                      Method("h", FALSE, 0, 0,
                                          << StaticRead(Ident("K"), "total") >>) >>)
                            EXCEPT !.Fields = <<ClassField("total", "public", TRUE)>>] >>)) >>
      [] p.id = "newAbstract" ->
            \* K.f creates an A, an abstract class
            << Entry("K", File("app", <<>>,
                     << [ClassDecl("A", FALSE, <<>>) EXCEPT !.Abstract = TRUE],
                        ClassDecl("K", FALSE,
                                  <<Method("f", FALSE, 0, 0,
                                           <<VarDecl("x", <<NewExpr("A", <<>>)>>)>>)>>) >>)) >>
      [] p.id = "childInit" ->
            \* C extends the concrete class P and declares init
            << Entry("C", File("app", <<>>,
                     << ClassDecl("P", FALSE, <<Method("b", FALSE, 0, 0, <<>>)>>),
                        [ClassDecl("C", FALSE, <<>>) EXCEPT
                            !.Extends = "P",
                            !.InitMethod = <<Method("init", FALSE, 0, 0,
                                                <<VarDecl("x", <<StringLit("1")>>)>>)>>] >>)) >>
      [] p.id = "cycleSelf" ->
            \* A names itself as its parent
            << Entry("A", File("app", <<>>,
                     << [ClassDecl("A", FALSE, <<Method("b", FALSE, 0, 0, <<>>)>>)
                            EXCEPT !.Extends = "A"] >>)) >>
      [] p.id = "cycleTwo" ->
            \* A extends B and B extends A, each declared in its own file
            << Entry("A", File("app", <<>>,
                     << [ClassDecl("A", FALSE, <<Method("a", FALSE, 0, 0, <<>>)>>)
                            EXCEPT !.Extends = "B"] >>)),
               Entry("B", File("app", <<>>,
                     << [ClassDecl("B", FALSE, <<Method("b", FALSE, 0, 0, <<>>)>>)
                            EXCEPT !.Extends = "A"] >>)) >>
      [] p.id = "throws" ->
            \* errable methods of a class, a struct and a static class that
            \* throw, and one that calls an errable method as a statement
            << Entry("K", File("app", <<>>,
                     << ClassDecl("K", FALSE,
                            << ClassMethod("m", "public", FALSE, TRUE, <<>>, MixedResults, Boom),
                               ClassMethod("md", "public", FALSE, TRUE,
                                           <<Field("a", "int", <<StringLit("1")>>)>>,
                                           Fields(1), Boom),
                               ClassMethod("v", "public", FALSE, TRUE, <<>>, <<>>, Boom),
                               ClassMethod("p", "public", FALSE, TRUE, <<>>, Fields(2),
                                           <<ExpressionStmt(This("v", <<>>))>>) >>),
                        StructDecl("S", FALSE,
                            <<ClassMethod("sm", "public", FALSE, TRUE, <<>>,
                                          <<Field("", "bool", <<>>)>>, Boom)>>),
                        [ClassDecl("U", FALSE,
                            <<ClassMethod("um", "public", TRUE, TRUE, <<>>, Fields(1), Boom)>>)
                            EXCEPT !.Static = TRUE] >>)) >>
      [] p.id = "funcThrows" ->
            \* an errable function with a defaulted parameter that throws; it
            \* passes with validation skipped
            << Entry("", File("app", <<>>,
                     << FuncDecl("optf", FALSE, TRUE, <<Field("a", "int", <<StringLit("1")>>)>>,
                                 Fields(1), Boom),
                        ClassDecl("K", FALSE, <<>>) >>)) >>
      [] p.id = "newDefaults" ->
            \* K.f constructs a D, whose constructor has two defaulted
            \* parameters, with no and with one argument, and calls md, a method
            \* with two defaulted parameters, with one argument
            << Entry("K", File("app", <<>>,
                     << [ClassDecl("D", FALSE, <<>>)
                            EXCEPT !.InitMethod =
                                <<ClassMethod("init", "public", FALSE, FALSE, TwoDefaults,
                                              <<>>, <<>>)>>],
                        ClassDecl("K", TRUE,
                                  << ClassMethod("md", "public", FALSE, FALSE, TwoDefaults,
                                                 <<>>, <<>>),
                                     Method("f", FALSE, 0, 0,
                                            << VarDecl("x", <<NewExpr("D", <<>>)>>),
                                               VarDecl("y", <<NewExpr("D", <<StringLit("5")>>)>>),
                                               ExpressionStmt(This("md", <<StringLit("7")>>))
                                            >>) >>) >>)) >>
      [] p.id = "funcDefaults" ->
            \* K.f calls optf, a function with two defaulted parameters, with
            \* no and with one argument; the function passes with validation
            \* skipped
            << Entry("", File("app", <<>>,
                     << FuncDecl("optf", FALSE, FALSE, TwoDefaults, <<>>, <<>>),
                        ClassDecl("K", FALSE,
                                  <<Method("f", FALSE, 0, 0,
                                           << ExpressionStmt(CallExpr(Ident("optf"), <<>>)),
                                              ExpressionStmt(CallExpr(Ident("optf"),
                                                                      <<StringLit("9")>>))
                                           >>)>>) >>)) >>
      [] p.id = "errables" ->
            \* errable functions and methods of every kind, with and without a
            \* defaulted parameter; the functions pass with validation skipped
            << Entry("", File("app", <<>>,
                     << FuncDecl("plainf", FALSE, TRUE, Fields(1), Fields(1), <<>>),
                        FuncDecl("optf", FALSE, TRUE, <<Field("a", "int", <<StringLit("1")>>)>>,
                                 Fields(1), <<>>),
                        ClassDecl("K", FALSE,
                                  << Method("m", TRUE, 1, 1, <<>>),
                                     ClassMethod("md", "public", FALSE, TRUE,
                                                 <<Field("a", "int", <<StringLit("1")>>)>>,
                                                 Fields(1), <<>>) >>),
                        StructDecl("S", FALSE, <<Method("sm", TRUE, 0, 0, <<>>)>>),
                        [ClassDecl("U", FALSE, <<Method("um", TRUE, 0, 1, <<>>)>>)
                            EXCEPT !.Static = TRUE] >>)) >>
      [] p.id \in {"passes", "passesNoName"} ->
            \* a top-level function, a public class in a file of another name,
            \* an undeclared parent, an unhandled errable call, an unused import
            << Entry(IF p.id = "passes" THEN "X" ELSE "",
                     File("app", <<ImportSpec("Q", "", "lib", FALSE)>>,
                          << FuncDecl("top", FALSE, FALSE, <<>>, <<>>, <<>>),
                             [ClassDecl("K", TRUE,
                                        << Method("risky", TRUE, 0, 0, <<>>),
                                           Method("f", FALSE, 0, 0,
                                                  <<ExpressionStmt(This("risky", <<>>))>>) >>)
                                EXCEPT !.Extends = "P"] >>)) >>

\* Files named p.file that declare a class M and, as p says, the public
\* classes K and L and the public interface I.
NamingFile(p) ==
    File("app", <<>>,
         (IF p.k THEN <<ClassDecl("K", TRUE, <<>>)>> ELSE <<>>)
         \o <<ClassDecl("M", FALSE, <<>>)>>
         \o (IF p.i THEN <<InterfaceDecl("I", TRUE, <<>>)>> ELSE <<>>)
         \o (IF p.l THEN <<ClassDecl("L", TRUE, <<>>)>> ELSE <<>>))

NamingProjects ==
    {[fam |-> "naming", k |-> k, l |-> l, i |-> i, file |-> fl] :
        k \in BOOLEAN, l \in BOOLEAN, i \in BOOLEAN, fl \in {"K", "k", "I", "X"}}

\* A class or struct K whose methods m (and n) have the parameter types that
\* p.ms names.
Typed(name, types) ==
    ClassMethod(name, "public", FALSE, FALSE,
                [i \in 1..Len(types) |-> Field("", types[i], <<>>)], <<>>, <<>>)

OverMethods(ms) ==
    CASE ms = "single"   -> <<Typed("m", <<"int">>), Typed("n", <<"int">>)>>
      [] ms = "dup"      -> <<Typed("m", <<"int">>), Typed("m", <<"int">>)>>
      [] ms = "distinct" -> <<Typed("m", <<"int">>), Typed("m", <<"string">>),
                              Typed("m", <<"int", "int">>), Typed("m", <<>>)>>
      [] ms = "mixed"    -> <<Typed("m", <<"int", "string">>), Typed("m", <<"string", "int">>),
                              Typed("n", <<"int">>), Typed("m", <<"int", "string">>)>>

OverFile(p) == File("app", <<>>, <<[Decl(p.kind, "K", FALSE) EXCEPT !.Methods = OverMethods(p.ms)]>>)

OverProjects ==
    {[fam |-> "over", kind |-> kd, ms |-> ms] :
        kd \in {"class", "struct"}, ms \in {"single", "dup", "distinct", "mixed"}}

MultiProjects ==
    {[fam |-> "multi", id |-> id] :
        id \in {"newOther", "overloads", "imports", "unhandled", "undefined", "errables",
                "newDefaults", "funcDefaults", "staticMembers", "newAbstract",
                "throws", "funcThrows", "childInit", "cycleSelf", "cycleTwo",
                "passes", "passesNoName"}}

----------------------------------------------------------------------------
(* The programs: errable calls in try bodies and catch bodies *)

\* f's body is one try: the call of the errable risky, nested in p.ctx, stands
\* in the try body (p.where = "try") or in the catch body ("catch"); the other
\* body calls later, which is not errable.
CatchFile(p) ==
    LET risky == Nest(p.ctx, <<ExpressionStmt(This("risky", <<>>))>>)
        later == <<ExpressionStmt(This("later", <<>>))>>
        tail  == IF p.ferr THEN <<ReturnStmt(<<Ident("x")>>)>> ELSE <<>>
    IN  File("app", <<>>,
             << ClassDecl("K", FALSE,
                    << Method("risky", TRUE, 0, 0, <<>>), Method("later", FALSE, 0, 0, <<>>),
                       Method("f", p.ferr, 0, IF p.ferr THEN 1 ELSE 0,
                              << IF p.where = "try" THEN TryStmt(risky, "e", later)
                                 ELSE TryStmt(later, "e", risky) >> \o tail) >>) >>)

CatchProjects ==
    {[fam |-> "catch", ferr |-> fe, ctx |-> cx, where |-> w] :
        fe \in BOOLEAN, cx \in {"direct", "if", "for", "switch"}, w \in {"try", "catch"}}

----------------------------------------------------------------------------
(* The programs: method calls on other types *)

\* K.f declares x as a new p.target ("class": the class D, "struct": the
\* struct D, "own": K itself) and calls x.m(), nested in p.ctx; m has
\* visibility p.vis.
VisFile(p) ==
    LET m    == ClassMethod("m", p.vis, FALSE, FALSE, <<>>, <<>>, <<>>)
        call == <<ExpressionStmt(CallExpr(SelectorExpr(Ident("x"), "m"), <<>>))>>
        f(value) == Method("f", FALSE, 0, 0,
                           <<ShortVarDecl(<<Ident("x")>>, value)>> \o Nest(p.ctx, call))
    IN  File("app", <<>>,
             CASE p.target = "class" ->
                     << ClassDecl("D", FALSE, <<m>>),
                        ClassDecl("K", FALSE, <<f(NewExpr("D", <<>>))>>) >>
               [] p.target = "struct" ->
                     << StructDecl("D", FALSE, <<m>>),
                        ClassDecl("K", FALSE, <<f(StructLiteral("D", <<>>))>>) >>
               [] p.target = "own" ->
                     << ClassDecl("K", FALSE, <<m, f(NewExpr("K", <<>>))>>) >>)

VisProjects ==
    {[fam |-> "vis", target |-> tg, vis |-> v, ctx |-> cx] :
        tg \in {"class", "struct", "own"}, v \in {"public", "private"},
        cx \in {"direct", "if", "switch"}}

----------------------------------------------------------------------------
(* The state machine *)

MaxCalls == 2   \* TranspileFileWithName calls on one Transpiler
MaxOrd == 1     \* map-iteration start offsets tried, 0..MaxOrd
MaxFail == 1    \* which errable invocation of a run fails, 0 (none)..MaxFail
MaxConds == 2   \* conditions of a run whose outcome is chosen

\* f's body is a loop whose body is a try and a call of later, followed by
\* a call of after. The try body calls the errable risky first (p.risky) and
\* then, nested in p.ctx, calls mark and jumps: p.jump is "break" or
\* "continue", written without a label.
LoopFile(p) ==
    LET jump == Nest(p.ctx, << ExpressionStmt(This("mark", <<>>)),
                               IF p.jump = "break" THEN BreakStmt ELSE ContinueStmt >>)
        body == (IF p.risky THEN <<ExpressionStmt(This("risky", <<>>))>> ELSE <<>>) \o jump
    IN  File("app", <<>>,
             << ClassDecl("K", FALSE,
                    << Method("risky", TRUE, 0, 0, <<>>), Method("mark", FALSE, 0, 0, <<>>),
                       Method("later", FALSE, 0, 0, <<>>), Method("after", FALSE, 0, 0, <<>>),
                       Method("handler", FALSE, 1, 0, <<>>),
                       Method("f", FALSE, 0, 0,
                              << ForStmt(<<Ident("c")>>,
                                     << TryStmt(body, "e",
                                            <<ExpressionStmt(This("handler", <<Ident("e")>>))>>),
                                        ExpressionStmt(This("later", <<>>)) >>),
                                 ExpressionStmt(This("after", <<>>)) >>) >>) >>)

LoopProjects ==
    {[fam |-> "loop", jump |-> j, ctx |-> cx, risky |-> r] :
        j \in {"break", "continue"}, cx \in {"direct", "if"}, r \in BOOLEAN}

\* f's body holds the payload twice in one block, on its own (f is then
\* errable) or as the body of a try.
TwiceFile(p) ==
    LET core == Payload(p.payload) \o Payload(p.payload)
    IN  File("app", <<>>,
             << ClassDecl("K", FALSE,
                    << Method("risky", TRUE, 0, 0, <<>>), Method("fetch", TRUE, 0, 1, <<>>),
                       Method("safe", FALSE, 1, 1, <<>>), Method("handler", FALSE, 1, 0, <<>>),
                       Method("f", p.shape = "plain", 0, 0,
                              IF p.shape = "try"
                              THEN <<TryStmt(core, "e",
                                         <<ExpressionStmt(This("handler", <<Ident("e")>>))>>)>>
                              ELSE core) >>) >>)

TwiceProjects ==
    {[fam |-> "twice", shape |-> sh, payload |-> pl] :
        sh \in {"plain", "try"}, pl \in {"call", "call1", "arg"}}

Projects ==
    BodyProjects \cup StaticProjects \cup ExtendsProjects \cup IfaceProjects \cup MultiProjects
    \cup NamingProjects \cup OverProjects \cup CatchProjects
    \cup VisProjects \cup LoopProjects \cup TwiceProjects

\* The files of a program, each with the name it is transpiled under ("" for a
\* TranspileFile call, which passes no name).
Files(p) ==
    CASE p.fam = "body"    -> <<Entry("K", BodyFile(p))>>
      [] p.fam = "static"  -> <<Entry("K", StaticFile(p))>>
      [] p.fam = "extends" -> <<Entry("C", ExtendsFile(p))>>
      [] p.fam = "iface"   -> <<Entry("K", IfaceFile(p))>>
      [] p.fam = "multi"   -> MultiFiles(p)
      [] p.fam = "naming"  -> <<Entry(p.file, NamingFile(p))>>
      [] p.fam = "over"    -> <<Entry("K", OverFile(p))>>
      [] p.fam = "catch"   -> <<Entry("K", CatchFile(p))>>
      [] p.fam = "vis"     -> <<Entry("K", VisFile(p))>>
      [] p.fam = "loop"    -> <<Entry("K", LoopFile(p))>>
      [] p.fam = "twice"   -> <<Entry("K", TwiceFile(p))>>

NoOut == [file |-> 0, ord |-> 0, code |-> <<>>, errors |-> <<>>, ok |-> FALSE]

NoExec == [fn |-> "", owner |-> "", valid |-> TRUE, trace |-> <<>>, returned |-> FALSE,
           ret |-> <<>>]

Init ==
    /\ phase = "new"
    /\ project \in {[id |-> p, files |-> Files(p)] : p \in Projects}
    /\ table = NewTable
    /\ tr = New
    /\ out = NoOut
    /\ calls = <<>>
    /\ exec = NoExec

\* symbol.NewCollector().Collect(files...) and transpiler.New(table)
CollectAndNew ==
    /\ phase = "new"
    /\ phase' = "ready"
    /\ table' = Collect(project.files)
    /\ tr' = New
    /\ UNCHANGED <<project, out, calls, exec>>

SetSkipValidation(skip) ==
    /\ phase = "ready"
    /\ tr' = [tr EXCEPT !.skipValidation = skip]
    /\ UNCHANGED <<phase, project, table, out, calls, exec>>

\* TranspileFileWithName(file, fileName) with the file's name; TranspileFile(file)
\* for a file without one.
\* What call r of TranspileFileWithName on file i leaves: the Transpiler after
\* it, and its result.
Returned(i, ord, r) ==
    /\ tr' = r.t
    /\ out' = [file |-> i, ord |-> ord, code |-> r.code, errors |-> r.errors, ok |-> r.ok]

\* A run of generated code leaves the Transpiler as it is, so the calls are
\* taken from the states without a recorded run.
Transpile(i, ord) ==
    /\ phase = "ready"
    /\ Len(calls) < MaxCalls
    /\ exec = NoExec
    /\ Returned(i, ord, Call("TranspileFileWithName", <<tr, table, project.files[i].ast,
                                                        project.files[i].name, ord>>))
    /\ calls' = Append(calls, i)
    /\ exec' = NoExec
    /\ UNCHANGED <<phase, project, table>>

\* One call of a function of the generated file.
RunGenerated(i, fail, conds) ==
    /\ phase = "ready"
    /\ out.ok
    /\ exec = NoExec
    /\ out.code[i].Body /= <<>>
    /\ exec' = Call("Run", <<project.files[out.file].ast.Statements, out.code[i], fail, conds>>)
    /\ UNCHANGED <<phase, project, table, tr, out, calls>>

Next ==
    \/ CollectAndNew
    \/ \E skip \in BOOLEAN : SetSkipValidation(skip)
    \/ \E i \in 1..Len(project.files), ord \in 0..MaxOrd : Transpile(i, ord)
    \/ \E i \in 1..Len(out.code), fail \in 0..MaxFail, conds \in [1..MaxConds -> BOOLEAN] :
            RunGenerated(i, fail, conds)

Spec == Init /\ [][Next]_vars


----------------------------------------------------------------------------
(* Properties *)

\* The file and the name of the call that out records.
OutFile == project.files[out.file]

\* What each validation pass reports on a file by itself, in the order the
\* passes run: the passes of a Transpiler with skipValidation = skip.
PassReports(skip, tbl, file, fileName, ord) ==
    << IF skip THEN <<>> ELSE validateTopLevelStatements(<<>>, file),
       IF skip \/ fileName = "" THEN <<>> ELSE validateFileNaming(<<>>, file, fileName) >>
    \o [i \in 1..Len(file.Statements) |->
           IF file.Statements[i].kind = "class"
           THEN ValidateClassDecl(<<>>, tbl, file.Package, fileName, file, file.Statements[i], ord)
           ELSE IF file.Statements[i].kind = "struct"
           THEN ValidateStructDecl(<<>>, tbl, file.Package, file.Statements[i], ord)
           ELSE <<>>]
    \o << validateErrableCalls(<<>>, tbl, file.Package, file),
          validateVisibility(<<>>, tbl, file.Package, file),
          IF skip THEN <<>> ELSE validateUndefinedSymbols(<<>>, file),
          validateUnusedImports(<<>>, file, ord) >>

\* C1: every call of TranspileFileWithName runs all the validation passes that
\* apply, whatever the earlier ones reported; when any of them reported, the
\* call returns no generated text and the reports of all passes, in pass order.
C1_AllPassesReported ==
    [][calls' /= calls =>
         LET f == project.files[out'.file]
             all == Concat(PassReports(tr.skipValidation, table, f.ast, f.name, out'.ord))
         IN  all /= <<>> => /\ out'.errors = all
                            /\ out'.code = <<>>
                            /\ ~out'.ok]_vars

\* A call returned the reports of several passes: a top-level function, a file
\* name, a missing parent, an unhandled errable call and an unused import.
C1_Witness ==
    /\ calls /= <<>>
    /\ ~out.ok
    /\ out.code = <<>>
    /\ [i \in 1..Len(out.errors) |-> out.errors[i].key]
         = <<"ErrTopLevelFunction", "ErrPublicClassFileName", "ErrParentClassNotFound",
             "ErrErrableMethodNotHandled", "ErrUnusedImport">>


\* The calls in the nodes ns (statements or expressions, with all they
\* contain) that lie outside the body of every try, as call expressions.
RECURSIVE CallsOutsideTry(_)
CallsOutsideTry(ns) ==
    UNION {(IF ns[i].k = "CallExpr" THEN {ns[i]} ELSE {})
           \cup CallsOutsideTry(ns[i].x)
           \cup (IF ns[i].k = "TryStmt" THEN {} ELSE CallsOutsideTry(ns[i].y))
           \cup CallsOutsideTry(ns[i].z) : i \in 1..Len(ns)}

\* The bodies of a file that are not marked errable, as [cls, body]: methods
\* and constructors of its classes and structs, and its functions.
PlainBodies(file) ==
    UNION {LET d == file.Statements[i]
           IN  IF d.kind \in {"class", "struct"}
               THEN {[cls |-> d.Name, body |-> m.Body] :
                        m \in {x \in SeqToSet(d.Methods \o d.InitMethod) : ~x.Errable}}
               ELSE IF d.kind = "func" /\ ~d.Errable
               THEN {[cls |-> "", body |-> d.Body]}
               ELSE {} : i \in 1..Len(file.Statements)}

\* Some body of the file that is not marked errable calls, outside every try
\* body, a method its declaration marks errable.
HasUnhandledErrableCall(file) ==
    \E b \in PlainBodies(file) :
        \E call \in CallsOutsideTry(b.body) :
            Callee([cls |-> b.cls, decls |-> file.Statements], call.x[1]).Errable

\* C2: a file whose validation ended with no diagnostic has no body, not marked
\* errable, that calls an errable function or method outside a try body.
C2_ValidatedHandlesErrables ==
    (calls /= <<>> /\ out.ok) => ~HasUnhandledErrableCall(OutFile.ast)

\* The run that exec records is a run of f of the body program of the given
\* shape, in generated code that Go accepts.
RanBody(shape) ==
    /\ exec.fn = "f"
    /\ exec.valid
    /\ project.id.fam = "body"
    /\ project.id.shape = shape

\* The positions of the calls of the recorded run that reported a failure.
FailedCalls == {i \in 1..Len(exec.trace) : exec.trace[i].err /= ""}

\* The calls of fn in the recorded run.
CallsOf(fn) == {i \in 1..Len(exec.trace) : exec.trace[i].fn = fn}

\* The first failure of the recorded run of a try body: the failure the first
\* failing call reported or, where the body throws before it calls later(),
\* the thrown value; "" without a failure.
FirstFailure ==
    IF FailedCalls /= {}
    THEN exec.trace[CHOOSE i \in FailedCalls : \A j \in FailedCalls : i <= j].err
    ELSE IF project.id.payload = "throw" /\ CallsOf("later") = {} THEN "E:errorf"
    ELSE ""

\* C3: when a failure arises in the body of a try (nested or not), no later
\* statement of the body runs, the catch body runs exactly once with the
\* failure as its parameter, and the function goes on after the try instead
\* of returning.
C3_CatchRunsOnceOnFailure ==
    (RanBody("try") /\ FirstFailure /= "") =>
        /\ CallsOf("later") = {}
        /\ Cardinality(CallsOf("handler")) = 1
        /\ \A i \in CallsOf("handler") : exec.trace[i].arg = FirstFailure
        /\ CallsOf("after") /= {}

\* C4: in an errable f, a call outside every try that reports a failure is the
\* last thing f does: f returns the zero value of its result and the failure.
C4_ErrableCallPropagates ==
    (RanBody("plain") /\ project.id.ferr /\ FailedCalls /= {}) =>
        /\ FailedCalls = {Len(exec.trace)}
        /\ exec.returned
        /\ exec.ret = <<"0", exec.trace[Len(exec.trace)].err>>

\* What TranspileFileWithName returns for file entry f on a Transpiler that
\* New has just made, with validation switched as skip says.
FreshOutcome(skip, f, ord) ==
    LET r == TranspileFileWithName([New EXCEPT !.skipValidation = skip], table, f.ast, f.name, ord)
    IN  [code |-> r.code, errors |-> r.errors, ok |-> r.ok]

\* C5: every call of TranspileFileWithName returns for its file what a fresh
\* Transpiler over the same Symbol Table returns for it, whatever files the
\* Transpiler processed before.
C5_OutcomeIndependentOfEarlierFiles ==
    [][calls' /= calls =>
         [code |-> out'.code, errors |-> out'.errors, ok |-> out'.ok]
            = FreshOutcome(tr.skipValidation, project.files[out'.file], out'.ord)]_vars

\* C6: the validation passes of a call report the same diagnostics in the same
\* order on every run over the same file and Symbol Table, whatever order the
\* runtime hands the entries of a map out in.
C6_ValidationRepeatable ==
    [][calls' /= calls =>
         \A ord \in 0..MaxOrd :
            LET f == project.files[out'.file]
            IN  Validate(tr, table, f.ast, f.name, ord)
                    = Validate(tr, table, f.ast, f.name, out'.ord)]_vars

\* The class declarations of the file that out records, and what the Symbol
\* Table holds for the class a declaration's extends clause names.
OutClasses == {d \in SeqToSet(OutFile.ast.Statements) : d.kind = "class"}

ParentOf(d) == GetClass(table, OutFile.ast.Package, d.Extends)

\* The diagnostics of the recorded call about the extends clause of class d.
ExtendsReports(d) ==
    {e \in SeqToSet(out.errors) :
        /\ e.a = d.Name
        /\ e.key \in {"ErrParentClassNotFound", "ErrExtendNonAbstract",
                      "ErrAbstractMethodMissing", "ErrAbstractParamMismatch",
                      "ErrAbstractReturnMismatch"}}

DeclCount == Len(Concat([i \in 1..Len(project.files) |-> project.files[i].ast.Statements]))

\* The classes of the Symbol Table up the extends chain of the class named
\* name, at most n of them.
RECURSIVE Ancestors(_, _)
Ancestors(name, n) ==
    LET info == GetClass(table, OutFile.ast.Package, name)
    IN  IF n = 0 \/ name = "" \/ IsNil(info) THEN {}
        ELSE {info} \cup Ancestors(info.Extends, n - 1)

\* Class d declares a method named as the abstract method am with as many
\* parameters and results.
Implemented(d, am) ==
    \E m \in SeqToSet(d.Methods) :
        /\ m.Name = am.Name
        /\ Len(m.Params) = Len(am.Params)
        /\ Len(m.Results) = Len(am.Results)

\* C8: in a file validated without a diagnostic, a class that is not abstract
\* and extends an abstract class implements every abstract method of every
\* abstract class up its extends chain.
C8_AncestorAbstractMethodsImplemented ==
    (calls /= <<>> /\ out.ok) =>
        \A d \in OutClasses :
            (d.Extends /= "" /\ ~d.Abstract /\ ~IsNil(ParentOf(d)) /\ ParentOf(d).Abstract)
                => \A anc \in Ancestors(d.Extends, DeclCount) :
                      anc.Abstract => \A am \in SeqToSet(anc.AbstractMethods) : Implemented(d, am)

\* The class and struct declarations of the file that out records.
OutTypes == {d \in SeqToSet(OutFile.ast.Statements) : d.kind \in {"class", "struct"}}

\* The diagnostics of the recorded call about the interfaces of d, in order.
InterfaceReports(d) ==
    SelectSeq(out.errors,
              LAMBDA e : /\ e.a = d.Name
                         /\ e.key \in {"ErrInterfaceNotFound", "ErrMissingMethod",
                                       "ErrParamCountMismatch", "ErrReturnCountMismatch",
                                       "ErrStructInterfaceNotFound", "ErrStructMissingMethod",
                                       "ErrStructParamMismatch", "ErrStructReturnMismatch"})

\* The methods of the interfaces d implements that d provides with matching
\* counts, and those it declares no method for.
Required(d) ==
    UNION {SeqToSet(GetInterface(table, OutFile.ast.Package, d.Implements[i]).Methods) :
              i \in {j \in 1..Len(d.Implements) :
                        ~IsNil(GetInterface(table, OutFile.ast.Package, d.Implements[j]))}}

Undeclared(d) == {s \in Required(d) : \A m \in SeqToSet(d.Methods) : m.Name /= s.Name}

\* C9: a class or struct that provides every method of the interfaces it
\* implements, with matching counts, gets no interface diagnostic; one that
\* lacks exactly one of them gets exactly one diagnostic, the missing-method
\* one naming that method.
C9_ImplementsDiagnostics ==
    calls /= <<>> =>
        \A d \in OutTypes :
            (d.Implements /= <<>> /\ Required(d) /= {}) =>
                /\ (\A s \in Required(d) : Implemented(d, s)) => InterfaceReports(d) = <<>>
                /\ \A s \in Required(d) :
                      (Undeclared(d) = {s} /\ \A r \in Required(d) \ {s} : Implemented(d, r))
                          => /\ Len(InterfaceReports(d)) = 1
                             /\ InterfaceReports(d)[1].key
                                    \in {"ErrMissingMethod", "ErrStructMissingMethod"}
                             /\ InterfaceReports(d)[1].c = s.Name

\* Some of the nodes ns (statements or expressions), or something they
\* contain at any depth, is this.
RECURSIVE MentionsThis(_)
MentionsThis(ns) ==
    \E i \in 1..Len(ns) :
        \/ ns[i].k = "ThisExpr"
        \/ MentionsThis(ns[i].x)
        \/ MentionsThis(ns[i].y)
        \/ MentionsThis(ns[i].z)

\* The diagnostics of the recorded call about the static class d.
StaticReports(d) ==
    {e \in SeqToSet(out.errors) :
        e.a = d.Name /\ e.key \in {"ErrStaticClassInit", "ErrStaticClassThis"}}

\* C10: a static class gets a static-class diagnostic exactly when it declares
\* a constructor or the body of one of its methods mentions this, at whatever
\* depth.
C10_StaticReportedIffInitOrThis ==
    calls /= <<>> =>
        \A d \in OutClasses :
            d.Static =>
                (StaticReports(d) /= {}
                    <=> \/ d.InitMethod /= <<>>
                        \/ \E m \in SeqToSet(d.Methods) : m.HasBody /\ MentionsThis(m.Body))

\* The diagnostics of the top-level-shape and file-naming checks.
ShapeAndNamingKeys ==
    {"ErrTopLevelFunction", "ErrTopLevelVariable", "ErrTopLevelConstant",
     "ErrTooManyPublicTypes", "ErrPublicClassFileName", "ErrPublicIfaceFileName"}

\* C11 (as the specification states it): a call made with validation skipped
\* reports for its file what a call with the flag unset reports, less the
\* diagnostics of the top-level-shape and file-naming checks.
C11_SkipSuppressesShapeAndNamingOnly ==
    [][(calls' /= calls /\ tr.skipValidation) =>
         LET f == project.files[out'.file]
         IN  Validate(tr, table, f.ast, f.name, out'.ord)
                = SelectSeq(Validate([tr EXCEPT !.skipValidation = FALSE], table,
                                     f.ast, f.name, out'.ord),
                            LAMBDA e : e.key \notin ShapeAndNamingKeys)]_vars

\* C11 (as the code has it): a call made with validation skipped reports for
\* its file what a call with the flag unset reports, less the diagnostics of
\* the top-level-shape, file-naming and undefined-symbol checks.
C11_SkipSuppressesShapeNamingUndefined ==
    [][(calls' /= calls /\ tr.skipValidation) =>
         LET f == project.files[out'.file]
         IN  Validate(tr, table, f.ast, f.name, out'.ord)
                = SelectSeq(Validate([tr EXCEPT !.skipValidation = FALSE], table,
                                     f.ast, f.name, out'.ord),
                            LAMBDA e : e.key \notin ShapeAndNamingKeys \cup {"ErrUndefinedType"})]_vars

\* A call with validation skipped on the file that every pass reports on
\* returned the diagnostics of the extends, errable-call and unused-import
\* checks and none of the shape and naming checks.
C11_Witness ==
    /\ calls /= <<>>
    /\ tr.skipValidation
    /\ project.id = [fam |-> "multi", id |-> "passes"]
    /\ [i \in 1..Len(out.errors) |-> out.errors[i].key]
         = <<"ErrParentClassNotFound", "ErrErrableMethodNotHandled", "ErrUnusedImport">>

\* The public classes and interfaces that file declares.
PublicTypes(file) ==
    SelectSeq(file.Statements, LAMBDA d : d.kind \in {"class", "interface"} /\ d.Public)

\* The diagnostics of the file-naming check among errs, in order.
NamingReports(errs) ==
    SelectSeq(errs, LAMBDA e : e.key \in {"ErrTooManyPublicTypes", "ErrPublicClassFileName",
                                          "ErrPublicIfaceFileName"})

\* C12: a call with a file name and validation not skipped reports, for a file
\* of n >= 2 public types, the too-many-public-types diagnostic once, with n;
\* for a file whose one public type is not named as the file, the
\* naming-mismatch diagnostic once; for a file whose one public type is named
\* as the file, neither.
C12_FileNamingDiagnostics ==
    [][(calls' /= calls /\ ~tr.skipValidation /\ project.files[out'.file].name /= "") =>
         LET f == project.files[out'.file]
             pub == PublicTypes(f.ast)
             reports == NamingReports(out'.errors)
         IN  /\ Len(pub) >= 2 =>
                    /\ Len(reports) = 1
                    /\ reports[1].key = "ErrTooManyPublicTypes"
                    /\ reports[1].n = Len(pub)
             /\ (Len(pub) = 1 /\ pub[1].Name /= f.name) =>
                    /\ Len(reports) = 1
                    /\ reports[1].key \in {"ErrPublicClassFileName", "ErrPublicIfaceFileName"}
                    /\ reports[1].a = pub[1].Name
                    /\ reports[1].c = f.name
             /\ (Len(pub) = 1 /\ pub[1].Name = f.name) => reports = <<>>]_vars

\* A call on a file of three public types reported the count 3, once.
C12_Witness ==
    /\ calls /= <<>>
    /\ Len(PublicTypes(OutFile.ast)) = 3
    /\ Len(NamingReports(out.errors)) = 1
    /\ NamingReports(out.errors)[1].key = "ErrTooManyPublicTypes"
    /\ NamingReports(out.errors)[1].n = 3

\* The parameter types of method m, in order.
ParamTypes(m) == [i \in 1..Len(m.Params) |-> m.Params[i].Type]

\* The pairs of methods of d named name that have the same parameter types.
SameSignature(d, name) ==
    {pr \in (1..Len(d.Methods)) \X (1..Len(d.Methods)) :
        /\ pr[1] < pr[2]
        /\ d.Methods[pr[1]].Name = name
        /\ d.Methods[pr[2]].Name = name
        /\ ParamTypes(d.Methods[pr[1]]) = ParamTypes(d.Methods[pr[2]])}

\* The duplicate-signature diagnostics of the recorded call about the methods
\* of d named name, in order.
DuplicateReports(d, name) ==
    SelectSeq(out.errors, LAMBDA e : /\ e.key = "ErrDuplicateOverloadSignature"
                                     /\ e.a = d.Name
                                     /\ e.b = name)

\* C13: for a class or struct, two methods of one name with the same parameter
\* types are reported by exactly one duplicate-signature diagnostic, and
\* same-named methods whose parameter types differ pairwise by none.
C13_DuplicateOverloadsReportedOnce ==
    calls /= <<>> =>
        \A d \in OutTypes :
            \A name \in {d.Methods[i].Name : i \in 1..Len(d.Methods)} :
                /\ Cardinality(SameSignature(d, name)) = 1 => Len(DuplicateReports(d, name)) = 1
                /\ SameSignature(d, name) = {} => DuplicateReports(d, name) = <<>>

\* A call on a type that declares m three times, twice with the same parameter
\* types, reported one duplicate for m.
C13_Witness ==
    /\ calls /= <<>>
    /\ \E d \in OutTypes :
          /\ Cardinality({i \in 1..Len(d.Methods) : d.Methods[i].Name = "m"}) = 3
          /\ Cardinality(SameSignature(d, "m")) = 1
          /\ Len(DuplicateReports(d, "m")) = 1

\* The symbols Collect adds for the methods and constructors of the classes of
\* the project, and the symbols it adds for its classes.
ClassMemberSymbols ==
    UNION {UNION {LET d == project.files[i].ast.Statements[j]
                      pkg == project.files[i].ast.Package
                  IN  IF d.kind /= "class" THEN {}
                      ELSE {ClassMethodSymbol(pkg, d, m) :
                                m \in SeqToSet(d.Methods \o d.AbstractMethods)}
                           \cup {InitSymbol(pkg, d, m) : m \in SeqToSet(d.InitMethod)}
                  : j \in 1..Len(project.files[i].ast.Statements)}
           : i \in 1..Len(project.files)}

\* C14: once Collect has added the symbols of the project, GetMethod(p, r, n)
\* returns the method symbol added for package p, receiver r and name n, and
\* the table still holds a symbol of every (package, receiver, name) added:
\* no Add replaced a symbol of another identity.
C14_LookupsReturnWhatWasAdded ==
    phase = "ready" =>
        \A sym \in ClassMemberSymbols :
            /\ ~IsNil(GetMethod(table, sym.Package, sym.Receiver, sym.Name))
            /\ GetMethod(table, sym.Package, sym.Receiver, sym.Name).Receiver = sym.Receiver
            /\ \E k \in DOMAIN table.symbols :
                  /\ table.symbols[k].Package = sym.Package
                  /\ table.symbols[k].Receiver = sym.Receiver
                  /\ table.symbols[k].Name = sym.Name

\* The try statements among the nodes ns and in all they contain.
RECURSIVE AllTries(_)
AllTries(ns) ==
    UNION {(IF ns[i].k = "TryStmt" THEN {ns[i]} ELSE {})
           \cup AllTries(ns[i].x) \cup AllTries(ns[i].y) \cup AllTries(ns[i].z)
           : i \in 1..Len(ns)}

\* Statement s of a try body of class cls declares more names than the
\* errable call on its right has results, or is a bare errable call of more
\* than one result.
Misreceived(file, cls, s) ==
    LET callee == Callee([cls |-> cls, decls |-> file.Statements], s.x[1].x[1])
    IN  /\ s.k \in {"ShortVarDecl", "ExpressionStmt"}
        /\ s.x[1].k = "CallExpr"
        /\ callee.Errable
        /\ \/ s.k = "ShortVarDecl" /\ Len(s.z) > Len(callee.Results)
           \/ s.k = "ExpressionStmt" /\ Len(callee.Results) > 1

\* Some try body of a method of the file has such a statement.
HasMisreceived(file) ==
    \E d \in {x \in SeqToSet(file.Statements) : x.kind \in {"class", "struct"}} :
        \E m \in SeqToSet(d.Methods) :
            \E try \in AllTries(m.Body) :
                \E i \in 1..Len(try.y) : Misreceived(file, d.Name, try.y[i])

\* C15: a call whose validation passes reported nothing and whose file has a
\* try-body statement that code generation reports returns the diagnostics of
\* code generation and no generated text.
C15_GenerationDiagnosticsReturned ==
    [][calls' /= calls =>
         LET f == project.files[out'.file]
         IN  (Validate(tr, table, f.ast, f.name, out'.ord) = <<>> /\ HasMisreceived(f.ast))
                => /\ ~out'.ok
                   /\ out'.code = <<>>
                   /\ out'.errors /= <<>>
                   /\ \A i \in 1..Len(out'.errors) :
                         out'.errors[i].key \in {"ErrTooManyVariables",
                                                 "ErrErrableMultiReturnNoAssign"}]_vars

\* A call on a file whose try body calls an errable method of two results as
\* a statement returned that diagnostic and no text.
C15_Witness ==
    /\ calls /= <<>>
    /\ ~out.ok
    /\ out.code = <<>>
    /\ HasMisreceived(OutFile.ast)
    /\ [i \in 1..Len(out.errors) |-> out.errors[i].key] = <<"ErrErrableMultiReturnNoAssign">>

\* The nodes ns (statements or expressions) and all they contain.
RECURSIVE NodesIn(_)
NodesIn(ns) ==
    UNION {{ns[i]} \cup NodesIn(ns[i].x) \cup NodesIn(ns[i].y) \cup NodesIn(ns[i].z)
           : i \in 1..Len(ns)}

\* The body of a try of class cls holds, at some depth, a throw or a call of
\* a method declared errable.
CanFail(file, cls, try) ==
    \E n \in NodesIn(try.y) :
        \/ n.k = "ThrowStmt"
        \/ /\ n.k = "CallExpr"
           /\ Callee([cls |-> cls, decls |-> file.Statements], n.x[1]).Errable

\* The function generated for method f of the body program, and the try
\* statement that opens f's body there.
GeneratedF == out.code[CHOOSE i \in 1..Len(out.code) : out.code[i].Source = "f"]

TryOfF == BodyOf(project.id)[1]

\* C16: when the body of a try holds an errable call or a throw at any depth,
\* the try is generated as the labelled single-iteration loop followed by the
\* catch test, not as the plain block without the catch body.
C16_LoopWhenBodyCanFail ==
    (calls /= <<>> /\ out.ok /\ project.id.fam = "body" /\ project.id.shape = "try"
        /\ CanFail(OutFile.ast, "K", TryOfF))
        => /\ GeneratedF.Body[1].k = "GoBlock"
           /\ \E i \in 1..Len(GeneratedF.Body[1].y) : GeneratedF.Body[1].y[i].k = "GoOnce"
           /\ \E i \in 1..Len(GeneratedF.Body[1].y) : GeneratedF.Body[1].y[i].k = "GoIfErr"


\* ------------------------------------------------------------------------
\* C17: the results of errable declarations

\* The declarations of the recorded file that generated function fn was
\* emitted for: the top-level function, or the methods of its owner, named
\* fn.Source.
SourceDecls(fn) ==
    IF fn.Owner = ""
    THEN {d \in SeqToSet(OutFile.ast.Statements) : d.kind = "func" /\ d.Name = fn.Source}
    ELSE UNION {{m \in SeqToSet(d.Methods) : m.Name = fn.Source} :
                    d \in {c \in OutTypes : c.Name = fn.Owner}}

ErrableEmitted ==
    {i \in 1..Len(out.code) : \E d \in SourceDecls(out.code[i]) : d.Errable}

\* C17: every function or method declared errable, of whatever kind and with
\* or without defaulted parameters, is generated with its declared results
\* followed by the error result.
C17_ErrableEmittedWithError ==
    (calls /= <<>> /\ out.ok)
        => \A i \in ErrableEmitted :
              /\ out.code[i].HasError
              /\ \A d \in SourceDecls(out.code[i]) : out.code[i].NResults = Len(d.Results)


\* ------------------------------------------------------------------------
\* C18: call sites of declarations with defaulted parameters

Mentions(text, sub) ==
    \E i \in 1..(Len(text) - Len(sub) + 1) : SubSeq(text, i, i + Len(sub) - 1) = sub

\* The expression a generated statement was emitted for.
SiteExpr(s) == IF s.x = <<>> THEN Ident("") ELSE s.x[1]

\* The parameters of the declaration that expression e of class cls calls or
\* constructs; <<>> when e is not a call of a declaration of the recorded file.
CalleeParams(cls, e) ==
    LET stmts == OutFile.ast.Statements
        named(kind, name) == {d \in SeqToSet(stmts) : d.kind = kind /\ d.Name = name}
    IN  IF e.k = "NewExpr"
        THEN IF \E d \in named("class", e.n) : d.InitMethod /= <<>>
             THEN (CHOOSE d \in named("class", e.n) : TRUE).InitMethod[1].Params ELSE <<>>
        ELSE IF e.k = "CallExpr" /\ e.x[1].k = "Identifier"
        THEN IF named("func", e.x[1].n) /= {}
             THEN (CHOOSE d \in named("func", e.x[1].n) : TRUE).Params ELSE <<>>
        ELSE IF e.k = "CallExpr" /\ e.x[1].k = "SelectorExpr" /\ e.x[1].x[1].k = "ThisExpr"
        THEN LET ms == UNION {{m \in SeqToSet(d.Methods) : m.Name = e.x[1].n} :
                                 d \in named("class", cls)}
             IN  IF ms /= {} THEN (CHOOSE m \in ms : TRUE).Params ELSE <<>>
        ELSE <<>>

\* The generated statements that call a declaration with a defaulted parameter.
DefaultSites ==
    {<<i, j>> \in (1..Len(out.code)) \X (1..3) :
        /\ j <= Len(out.code[i].Body)
        /\ HasDefaultParam(CalleeParams(out.code[i].Owner, SiteExpr(out.code[i].Body[j])))}

\* The text of site s passes an options aggregate that holds every argument
\* under the field of its parameter and the default of every omitted
\* parameter that has one. The aggregate built by the generated NewDefault
\* function holds exactly the defaults.
PassesCompleteOptions(s) ==
    LET stmt   == out.code[s[1]].Body[s[2]]
        e      == SiteExpr(stmt)
        params == CalleeParams(out.code[s[1]].Owner, e)
    IN  /\ Mentions(stmt.n, "Opts")
        /\ \/ Len(e.y) = 0 /\ Mentions(stmt.n, "(NewDefault__")
           \/ \A i \in 1..Len(params) :
                 IF i <= Len(e.y)
                 THEN Mentions(stmt.n, ToGoName(params[i].Name, TRUE) \o ": " \o e.y[i].n)
                 ELSE params[i].DefaultValue /= <<>>
                        => Mentions(stmt.n, ToGoName(params[i].Name, TRUE) \o ": "
                                              \o params[i].DefaultValue[1].n)

\* C18: every call of a function, method or constructor with a defaulted
\* parameter passes an options aggregate in which each argument fills the
\* field of its parameter and each omitted parameter that has a default is set
\* to that default.
C18_CallSitesPassCompleteOptions ==
    (calls /= <<>> /\ out.ok) => \A s \in DefaultSites : PassesCompleteOptions(s)


\* ------------------------------------------------------------------------
\* C19: identifiers of static members

\* The static access of generated statement s: left::member, called or read;
\* Ident("") when s holds none.
StaticAccessOf(s) ==
    LET e == SiteExpr(s)
    IN  IF e.k = "StaticAccessExpr" THEN e
        ELSE IF e.k = "CallExpr" /\ e.x[1].k = "StaticAccessExpr" THEN e.x[1]
        ELSE Ident("")

\* The generated statements that access a static member of a class of the
\* recorded file.
StaticSites ==
    {<<i, j>> \in (1..Len(out.code)) \X (1..3) :
        /\ j <= Len(out.code[i].Body)
        /\ StaticAccessOf(out.code[i].Body[j]).k = "StaticAccessExpr"}

\* The class a static access names: the owner of the accessing method for
\* self::, the named class otherwise.
AccessedClass(s) ==
    LET a == StaticAccessOf(out.code[s[1]].Body[s[2]])
    IN  IF a.x[1].k = "SelfExpr" THEN out.code[s[1]].Owner ELSE a.x[1].n

\* The identifiers generated for the declaration of the accessed member.
DeclaredAs(s) ==
    {out.code[i].Name : i \in {k \in 1..Len(out.code) :
        /\ out.code[k].Owner = AccessedClass(s)
        /\ out.code[k].Source = StaticAccessOf(out.code[s[1]].Body[s[2]]).n}}

\* The identifier generated at the access: the statement is "id()" for a
\* call and "var x = id" for a read.
AccessedAs(s) ==
    LET stmt == out.code[s[1]].Body[s[2]]
    IN  IF SiteExpr(stmt).k = "CallExpr" THEN SubSeq(stmt.n, 1, Len(stmt.n) - 2)
        ELSE SubSeq(stmt.n, Len("var x = ") + 1, Len(stmt.n))

\* C19: the identifier generated at every access of a static field or static
\* method, of a static class or of an ordinary class, is the identifier
\* generated for the declaration of that member.
C19_StaticAccessNamesDeclaration ==
    (calls /= <<>> /\ out.ok) => \A s \in StaticSites : DeclaredAs(s) = {AccessedAs(s)}


\* ------------------------------------------------------------------------
\* C20: errable calls in catch bodies

\* The reports of the recorded call that f leaves a call of risky unhandled.
UnhandledReports ==
    SelectSeq(out.errors,
              LAMBDA e : e.key = "ErrErrableMethodNotHandled" /\ e.a = "K.f" /\ e.b = "risky")

\* C20: in a function that is not errable, an errable call in the body of a
\* catch clause, on its own or nested in an if, for or switch, is reported as
\* unhandled, and the same call in the try body, on its own or nested in an
\* if, for or switch, is not reported.
C20_CatchBodyIsUnprotected ==
    (calls /= <<>> /\ project.id.fam = "catch" /\ ~project.id.ferr)
        => IF project.id.where = "catch"
           THEN Len(UnhandledReports) = 1 /\ ~out.ok
           ELSE Len(UnhandledReports) = 0 /\ out.ok

C20_Witness ==
    /\ calls /= <<>>
    /\ project.id.fam = "catch"
    /\ ~project.id.ferr
    /\ project.id.where = "catch"
    /\ project.id.ctx = "switch"
    /\ Len(UnhandledReports) = 1


\* ------------------------------------------------------------------------
\* C21: calls of methods that are not public

\* The recorded file calls, from K, a method of another class or struct that
\* is not public.
CallsPrivateOfOther ==
    /\ project.id.fam = "vis"
    /\ project.id.target \in {"class", "struct"}
    /\ project.id.vis = "private"

PrivateAccessReports ==
    SelectSeq(out.errors, LAMBDA e : e.key = "ErrPrivateMethodAccess")

\* C21: a file that validation accepts holds no call x.m() whose receiver is
\* of a class or struct other than the caller's that targets a method that is
\* not public, and a call on the caller's own type is never reported.
C21_NoPrivateCallAccepted ==
    (calls /= <<>> /\ project.id.fam = "vis")
        => /\ out.ok => ~CallsPrivateOfOther
           /\ project.id.target = "own" => Len(PrivateAccessReports) = 0


\* ------------------------------------------------------------------------
\* C22: the symbol table during validation and generation

\* Every declaration of every file of the program has its symbol in the
\* table, and every class its ClassInfo.
AllCollected ==
    \A i \in 1..Len(project.files) :
        \A d \in SeqToSet(project.files[i].ast.Statements) :
            /\ ~IsNil(Get(table, project.files[i].ast.Package, d.Name))
            /\ d.kind = "class" => ~IsNil(GetClass(table, project.files[i].ast.Package, d.Name))

\* C22: when a file enters validation the symbols of the whole file set have
\* been collected, and no step taken once the Transpiler exists (a call of
\* TranspileFileWithName, with its validation and generation, included)
\* changes the symbol table.
C22_TableCollectedThenReadOnly ==
    [][phase = "ready" => /\ table' = table
                          /\ calls' /= calls => AllCollected]_vars

C22_Witness ==
    /\ Len(project.files) = 2
    /\ calls = <<1, 2>>
    /\ AllCollected
    /\ table = Collect(project.files)


\* ------------------------------------------------------------------------
\* C23: static classes as parents

\* The classes of the recorded file that extend a static class of the file.
ExtendStatic ==
    {d \in OutClasses : \E s \in OutClasses : s.Static /\ s.Name = d.Extends}

\* C23: validation reports an error whenever a class of the file extends a
\* static class.
C23_StaticParentReported ==
    (calls /= <<>> /\ ExtendStatic /= {}) => (~out.ok /\ out.errors /= <<>>)


\* ------------------------------------------------------------------------
\* C24: instantiation of abstract classes

\* The new expressions of the recorded file that name an abstract class of
\* the file.
NewOfAbstract ==
    UNION {UNION {{n \in NodesIn(m.Body) :
                      /\ n.k = "NewExpr"
                      /\ \E a \in OutClasses : a.Abstract /\ a.Name = n.n} :
                  m \in SeqToSet(d.Methods)} :
           d \in OutTypes}

\* C24: validation reports an error for a file that holds new A(...) with A
\* an abstract class, so no such file is generated.
C24_NewOfAbstractReported ==
    (calls /= <<>> /\ NewOfAbstract /= {}) => (~out.ok /\ out.errors /= <<>>)


\* ------------------------------------------------------------------------
\* C25: throw in a function that is not errable

\* f, which is not errable, holds a throw that no try body encloses.
ThrowsUnprotected ==
    /\ project.id.fam = "body"
    /\ project.id.payload = "throw"
    /\ project.id.shape = "plain"
    /\ ~project.id.ferr

\* C25: a throw outside any try body in a function or method that is not
\* errable is reported by validation, so the file is not generated.
C25_UnprotectedThrowReported ==
    (calls /= <<>> /\ ThrowsUnprotected) => (~out.ok /\ out.errors /= <<>>)


\* ------------------------------------------------------------------------
\* C26: the returns generated for throw and for propagation

\* v is the failure value of a return generated for a throw (the thrown
\* errorf call) or for automatic propagation (err).
IsFailureValue(v) ==
    \/ v = Ident("err")
    \/ v.k = "CallExpr" /\ v.x[1] = Ident("errorf")

\* The returns of generated function fn that were generated for a throw or
\* for automatic propagation.
FailureReturns(fn) ==
    {r \in NodesIn(fn.Body) : r.k = "GoReturn" /\ r.x /= <<>> /\ IsFailureValue(r.x[Len(r.x)])}

\* The zero value of a result of type typ, as Go writes it.
IsZeroOf(typ, lit) ==
    /\ lit.k = "GoLit"
    /\ CASE typ \in {"int", "int8", "int16", "int32", "int64", "uint", "uint8", "uint16",
                     "uint32", "uint64", "byte", "rune"} -> lit.n = "0"
         [] typ \in {"float32", "float64"} -> lit.n \in {"0", "0.0"}
         [] typ = "bool"   -> lit.n = "false"
         [] typ = "string" -> lit.n = "\"\""
         [] OTHER          -> lit.n = "nil"

\* C26: in the function generated for an errable declaration with n results,
\* every return generated for a throw or for automatic propagation carries
\* the zero value of each of the n results followed by the failure value.
C26_FailureReturnsCarryZeroValues ==
    (calls /= <<>> /\ out.ok)
        => \A i \in ErrableEmitted :
              \A d \in SourceDecls(out.code[i]) :
                 \A r \in FailureReturns(out.code[i]) :
                    /\ Len(r.x) = Len(d.Results) + 1
                    /\ \A j \in 1..Len(d.Results) : IsZeroOf(d.Results[j].Type, r.x[j])


\* ------------------------------------------------------------------------
\* C27: the embedded parent of a constructed child instance

\* The generated struct types of the recorded file whose class extends a
\* class of the file that is neither abstract nor static.
ChildOfConcrete ==
    {i \in 1..Len(out.code) :
        /\ out.code[i].Embed /= ""
        /\ \E d \in OutClasses, pd \in OutClasses :
              /\ d.Name = out.code[i].Owner
              /\ pd.Name = d.Extends
              /\ ~pd.Abstract /\ ~pd.Static}

\* The generated constructors of the class of struct type i.
ConstructorsOf(i) ==
    {j \in 1..Len(out.code) :
        /\ out.code[j].Owner = out.code[i].Owner
        /\ out.code[j].Name = "New__" \o out.code[i].Name}

\* The embedded member of the instance that constructor fn returns: "&T{}"
\* leaves a pointer member nil, and it stays nil unless a statement of the
\* body assigns it; a member embedded by value is always there.
EmbeddedAfter(embedded, fn) ==
    IF ~HasPrefix(embedded, "*") THEN "value"
    ELSE IF \E k \in 1..Len(fn.Body) :
               /\ fn.Body[k].k = "GoAssign"
               /\ Mentions(fn.Body[k].n, "t." \o SubSeq(embedded, 2, Len(embedded)) \o " =")
         THEN "allocated"
         ELSE "nil"

\* C27: every instance returned by the generated constructor of a class that
\* extends a concrete class holds a non-nil embedded parent.
C27_EmbeddedParentAllocated ==
    out.ok =>
        \A i \in ChildOfConcrete :
            /\ ConstructorsOf(i) /= {}
            /\ \A j \in ConstructorsOf(i) :
                  EmbeddedAfter(out.code[i].Embed, out.code[j]) /= "nil"


\* ------------------------------------------------------------------------
\* C28: break and continue inside a try body

\* The recorded run is one of f of a loop program, and it reached the
\* unlabelled break or continue of the try body: mark, called just before
\* the jump, is in the trace.
JumpReached ==
    /\ project.id.fam = "loop"
    /\ exec.fn = "f"
    /\ CallsOf("mark") /= {}

\* C28: an unlabelled break or continue in a try body inside a user loop
\* leaves or continues that loop: the rest of the iteration (the call of
\* later after the try) does not run, the catch body does not run, and the
\* statements after the loop do.
C28_JumpBindsToUserLoop ==
    JumpReached =>
        /\ CallsOf("later") = {}
        /\ CallsOf("handler") = {}
        /\ CallsOf("after") /= {}


\* ------------------------------------------------------------------------
\* C29: the short declarations written for failure capture

\* The names statement s declares in the block it stands in.
DeclaredBy(s) ==
    IF s.k \in {"GoDefine", "GoVar"} THEN {s.z[i].n : i \in 1..Len(s.z)} \ {"_"} ELSE {}

\* The statement sequences (blocks) nested directly in statement s.
BlocksOf(s) ==
    CASE s.k \in {"GoOnce", "GoIfErr", "GoBlock", "GoFor", "GoRange", "GoCase"} -> {s.y}
      [] s.k = "GoIf"     -> {s.y, s.z}
      [] s.k = "GoSwitch" -> {s.z[i].y : i \in 1..Len(s.z)}
      [] OTHER -> {}

\* A short declaration of _err or err, as the lowering of errable calls
\* writes it.
IsFailureCapture(s) ==
    s.k = "GoDefine" /\ s.z /= <<>> /\ s.z[Len(s.z)].n \in {"_err", "err"}

\* Every failure capture of block stmts, and of the blocks nested in it,
\* declares a name that no earlier statement of its own block declares.
RECURSIVE CapturesDeclareNew(_)
CapturesDeclareNew(stmts) ==
    /\ \A i \in 1..Len(stmts) :
          IsFailureCapture(stmts[i]) =>
              DeclaredBy(stmts[i]) \ UNION {DeclaredBy(stmts[j]) : j \in 1..(i - 1)} /= {}
    /\ \A i \in 1..Len(stmts) : \A b \in BlocksOf(stmts[i]) : CapturesDeclareNew(b)

\* C29: in generated code every short declaration written for failure
\* capture introduces at least one new variable in its scope.
C29_FailureCaptureDeclaresNew ==
    out.ok => \A i \in 1..Len(out.code) : CapturesDeclareNew(out.code[i].Body)


\* ------------------------------------------------------------------------
\* C30: the extends relation has no cycle

\* The Parent link of the lang.ClassInfo written for the class named name:
\* the class it extends, "" when it extends none or is not in the table.
ClassInfoParent(name) ==
    LET info == GetClass(table, OutFile.ast.Package, name)
    IN  IF name = "" \/ IsNil(info) THEN "" ELSE info.Extends

\* c.IsChildOf(parent), following at most n further parent links: "true",
\* "false", or "more" when the walk has not ended by then.
RECURSIVE IsChildOf(_, _, _)
IsChildOf(c, parent, n) ==
    IF ClassInfoParent(c) = "" THEN "false"
    ELSE IF ClassInfoParent(c) = parent THEN "true"
    ELSE IF n = 0 THEN "more"
    ELSE IsChildOf(ClassInfoParent(c), parent, n - 1)

\* The classes of the recorded file that are their own direct or indirect
\* parent.
OwnAncestors ==
    {d \in OutClasses : \E anc \in Ancestors(d.Extends, DeclCount) : anc.Name = d.Name}

\* C30: after a validation without errors no class of the file is its own
\* direct or indirect parent, and the walk of IsChildOf from any of them
\* towards a class that is no parent of it ends within as many links as
\* there are declarations.
C30_ExtendsAcyclic ==
    out.ok =>
        /\ OwnAncestors = {}
        /\ \A d \in OutClasses : IsChildOf(d.Name, "<none>", DeclCount) /= "more"

====
